---- MODULE Spec2Model ----
(***************************************************************************)
(* A model of the audio/video player of webcodecs-vite:                    *)
(*   - RingBuffer (third_party/ringbufjs/ringbuf.ts), the wait-free SPSC   *)
(*     queue shared by the media worker and the AudioSink worklet, modelled *)
(*     at the granularity of its shared-memory accesses (SpecRB);           *)
(*   - AudioRenderer (samples/lib/audio-renderer.ts), the decode-ahead and  *)
(*     backpressure controller, modelled at the granularity of event-loop   *)
(*     tasks (SpecAR);                                                      *)
(*   - VideoRenderer (samples/lib/video-renderer.ts) with the worker's      *)
(*     play/pause handlers and requestAnimationFrame loop (SpecVR);         *)
(*   - MP4PullDemuxer (audio-video-player/mp4-pull-demuxer.ts), the pull    *)
(*     shim over the push-based MP4 source (SpecDX);                        *)
(*   - the initialization handshake of the media worker (SpecMW) and the    *)
(*     media clock shared by the page and the worker (SpecMT).              *)
(***************************************************************************)
EXTENDS Integers, Sequences, FiniteSets, TLC

VARIABLES
  \* ---- RingBuffer object (shared memory) ----
  _capacity,     \* RingBuffer._capacity: number of storage slots
  write_ptr,     \* RingBuffer.write_ptr[0]
  read_ptr,      \* RingBuffer.read_ptr[0]
  storage,       \* RingBuffer.storage: slot -> value
  \* ---- producer thread: position and locals of the call in progress ----
  p_pc,          \* "idle" | "load_rd" | "load_wr" | "copy"
  p_kind,        \* the method called last: "push" | "writeCallback" | "available_write" | "full"
  p_len,         \* elements.length / amount
  p_rd, p_wr,    \* var rd, var wr
  p_to_write,    \* let to_write
  p_first_part,  \* let first_part
  p_i,           \* elements copied so far by #copy / filled so far by cb
  p_ret,         \* value returned by the last call
  p_threw,       \* TRUE when a span of writeCallback could not be constructed
  p_steps,       \* shared-memory accesses made by the call in progress
  \* ---- consumer thread ----
  c_pc,          \* "idle" | "load_rd" | "load_wr" | "copy"
  c_kind,        \* "pop" | "available_read" | "empty"
  c_len,         \* elements.length
  c_rd, c_wr,
  c_to_read,
  c_first_part,
  c_i,
  c_out,         \* the elements array handed to pop
  c_ret,
  c_steps,
  \* ---- history ----
  pushed,        \* every value accepted by push/writeCallback, in order
  popped,        \* every value returned by pop, in order
  \* ---- AudioRenderer (media worker) ----
  ar_init,          \* the constructor's initialize().then() callback has run
  sampleRate,       \* AudioRenderer.sampleRate
  channelCount,     \* AudioRenderer.channelCount
  fillInProgress,   \* AudioRenderer.fillInProgress
  playing,          \* AudioRenderer.playing
  ready,            \* #deferredReady.resolved
  decodeQueueSize,  \* AudioDecoder.decodeQueueSize
  fillAwaiting,     \* executions of #fillDataBufferInternal suspended at await getNextChunk()
  readsPending,     \* getNextChunk() calls outstanding on the audio demuxer
  timers,           \* pending setTimeout(#fillDataBuffer) callbacks
  wrote,            \* return value of the last writeCallback of bufferAudioData
  unitSize,         \* numberOfFrames * numberOfChannels of the last decoded unit
  entryAtTarget,    \* the last fill cycle was invoked with the buffer at or above target
  entrySaturated,   \* the last fill cycle was invoked with decodeQueueSize at the maximum
  cycleWork,        \* the last fill cycle pulled a chunk or submitted a decode
  decodes,          \* decode() calls made so far
  unitsClosed,      \* close() calls made on decoded audio units
  \* ---- VideoRenderer (media worker) ----
  v_init,           \* #initialize has configured the decoder
  frameBuffer,      \* VideoRenderer.frameBuffer: the frames held, oldest first
  frameTime,        \* timestamp of every frame the decoder has output, by frame
  closes,           \* close() calls made on every frame, by frame
  v_fillInProgress, \* VideoRenderer.fillInProgress
  v_decodeQueueSize,\* VideoDecoder.decodeQueueSize
  v_awaiting,       \* executions of fillFrameBuffer suspended at await getNextChunk()
  v_timers,         \* pending setTimeout(fillFrameBuffer, 0) callbacks
  v_ready,          \* VideoRenderer.#deferredReady.resolved
  v_wasFull,        \* frameBuffer has held FRAME_BUFFER_TARGET_SIZE frames
  v_chunks,         \* chunks handed to VideoDecoder.decode so far
  chosen,           \* the frame chooseFrame returned last (0: null or none)
  painted,          \* the frame paint drew last (0: none)
  renderTs,         \* the timestamp of the last call of render (-1: none)
  \* ---- media worker: module state ----
  w_playing,        \* let playing
  w_paused,         \* the 'pause' handler has run and no 'play' since
  raf,              \* pending requestAnimationFrame(renderVideo) callbacks
  initState,        \* 'initialize' handler: "none" | "waiting" | "posted"
  posts,            \* 'initialize-done' messages posted
  \* ---- MP4PullDemuxer ----
  readySamples,     \* MP4PullDemuxer.readySamples
  d_resolved,       \* #deferredSample.resolved
  d_value,          \* the sample #deferredSample.promise is resolved with (0: none)
  started,          \* the MP4 source is started (file.start() without a later stop())
  delivered,        \* samples the source has passed to _onSamples so far
  totalSamples,     \* samples in the track
  d_waiting,        \* a getNextChunk() call awaits the pending #deferredSample.promise
  returned,         \* the samples getNextChunk() calls have resolved with, in call order
  callExhausted,    \* the last getNextChunk() call was made with the stream exhausted
  callOutcome,      \* of the last call: "none" | "resolved" | "pending" | "failed"
  \* ---- media clock: page and worker ----
  now,              \* performance.now() of the page and of the worker, in ms
  ctxRunning,       \* AudioContext.state = "running"
  ctxTime,          \* AudioContext.currentTime, in ms
  buttonText,       \* playButton.innerText: "Play" | "Pause"
  intervalOn,       \* mediaTimeUpdateInterval is set
  suspending,       \* audioController.pause() promises whose then() has not run
  msgs,             \* messages posted to the worker and not yet handled
  lastMediaTimeSecs,          \* let lastMediaTimeSecs, in ms
  lastMediaTimeCapturePoint,  \* let lastMediaTimeCapturePoint, in ms
  prevRenderTs,     \* the timestamp of the call of render before the last (-1: none)
  \* ---- VideoDecoder failure ----
  v_errored,        \* the VideoDecoder's error callback has run
  v_lateDecodes,    \* decode() calls made after the error callback ran
  \* ---- one Defer object ----
  df_impl,          \* the defer() that made it: "none" | "defer.ts" | "debug-log.ts"
  df_resolved,      \* the closure variable `resolved` of defer()
  df_field,         \* the data property `resolved` of the object debug-log.ts returns
  df_promise,       \* the promise: <<>> while pending, <<value>> once fulfilled
  df_args,          \* the arguments of the resolve() calls made, in order
  df_read,          \* the last read of the property `resolved`: <<value, resolve() calls before>>
  \* ---- AudioRenderer and AudioSink: sample values ----
  interleavingBuffers, \* AudioRenderer.interleavingBuffers: one sequence of samples per buffer
  deinterleaveBuffer,  \* AudioSink.deinterleaveBuffer: the elements the last pop filled
  u_count,          \* decoded units delivered to bufferAudioData so far
  u_last,           \* <<numberOfChannels, numberOfFrames>> of the last unit (<<>>: none)
  u_prev,           \* the same of the unit before it
  u_realloc,        \* the last bufferAudioData allocated new interleavingBuffers
  u_outcome,        \* of the last bufferAudioData: "none" | "written" | "copyTo threw" | "interleave threw"
  u_start,          \* the write index at which the last writeCallback began
  published,        \* samples published to the ring buffer so far
  consumed,         \* samples popped by AudioSink.process so far
  underDelivered    \* some writeCallback returned less than the unit's size

rbVars == <<_capacity, write_ptr, read_ptr, storage>>
pVars == <<p_pc, p_kind, p_len, p_rd, p_wr, p_to_write, p_first_part, p_i, p_ret,
           p_threw, p_steps>>
cVars == <<c_pc, c_kind, c_len, c_rd, c_wr, c_to_read, c_first_part, c_i, c_out,
           c_ret, c_steps>>
hVars == <<pushed, popped>>
arVars == <<ar_init, sampleRate, channelCount, fillInProgress, playing, ready,
            decodeQueueSize, fillAwaiting, readsPending, timers, wrote, unitSize,
            entryAtTarget, entrySaturated, cycleWork, decodes>>
vrVars == <<v_init, frameBuffer, frameTime, closes, v_fillInProgress, v_decodeQueueSize,
            v_awaiting, v_timers, v_ready, v_wasFull, v_chunks, chosen, painted>>
wVars == <<w_playing, w_paused, raf, renderTs, prevRenderTs>>
iVars == <<initState, posts>>
dxVars == <<readySamples, d_resolved, d_value, started, delivered, totalSamples,
            d_waiting, returned, callExhausted, callOutcome>>
mtVars == <<now, ctxRunning, ctxTime, buttonText, intervalOn, suspending, msgs,
            lastMediaTimeSecs, lastMediaTimeCapturePoint>>
eVars == <<v_errored, v_lateDecodes>>
dfVars == <<df_impl, df_resolved, df_field, df_promise, df_args, df_read>>
\* state outside the renderers, the demuxer and the clock
ibVars == <<interleavingBuffers, deinterleaveBuffer, u_count, u_last, u_prev, u_realloc,
            u_outcome, u_start, published, consumed, underDelivered>>
zVars == <<dfVars, ibVars>>
xVars == <<unitsClosed, vrVars, wVars, iVars, dxVars, mtVars, eVars, zVars>>
vars == <<rbVars, pVars, cVars, hVars, arVars, xVars>>

Min(a, b) == IF a < b THEN a ELSE b

\* ---- bounds of the RingBuffer model ----
\* capacity passed to getStorageForCapacity
RBCapacity == 3
\* largest elements.length / amount of a call (larger than the capacity)
MaxLen == 4
\* values pushed in one behaviour
MaxTotal == 7

\* Float32Array.BYTES_PER_ELEMENT: the only element type the player constructs
BYTES_PER_ELEMENT == 4
\* bytes of the two Uint32 indices at the head of the SharedArrayBuffer
HEADER_BYTES == 8

(***************************************************************************)
(* RingBuffer: construction and pure helpers                               *)
(***************************************************************************)
getStorageForCapacityOffByOne(capacity) == HEADER_BYTES + capacity * BYTES_PER_ELEMENT

\* static getStorageForCapacity: byteLength of the SharedArrayBuffer
getStorageForCapacity(capacity) == HEADER_BYTES + (capacity + 1) * BYTES_PER_ELEMENT

\* constructor: this._capacity
CtorCapacity(byteLength) == (byteLength - HEADER_BYTES) \div BYTES_PER_ELEMENT

\* #storage_capacity()
storage_capacity == _capacity

\* capacity()
capacity == _capacity - 1

\* #available_read(rd, wr)
available_read_(rd, wr) == (wr + storage_capacity - rd) % storage_capacity

available_write_nosentinel(rd, wr) == storage_capacity - available_read_(rd, wr)

\* #available_write(rd, wr)
available_write_(rd, wr) == capacity - available_read_(rd, wr)

\* the full test of push, writeCallback and full()
IsFull(rd, wr) == (wr + 1) % storage_capacity = rd

PushToWriteUnclamped(rd, wr, len) == len

\* push / writeCallback: let to_write
PushToWrite(rd, wr, len) == Min(available_write_(rd, wr), len)

PushFirstPartOffByOne(wr, to_write) == Min(storage_capacity - wr + 1, to_write)

\* push / writeCallback: let first_part
PushFirstPart(wr, to_write) == Min(storage_capacity - wr, to_write)

\* pop: let to_read
PopToRead(rd, wr, len) == Min(available_read_(rd, wr), len)

PopFirstPartNoWrap(rd, to_read) == to_read

\* pop: let first_part
PopFirstPart(rd, to_read) == Min(storage_capacity - rd, to_read)

PushSlotSecondPartAtOne(wr, first_part, i) ==
  IF i < first_part THEN wr + i ELSE 1 + (i - first_part)

\* Slot of storage touched by the i-th element of the two #copy calls of push
\* (offset_output = wr for the first part, 0 for the second), i from 0.
PushSlot(wr, first_part, i) == IF i < first_part THEN wr + i ELSE 0 + (i - first_part)

FirstSpanStartUnscaled(wr) == ((8 + wr) - HEADER_BYTES) \div BYTES_PER_ELEMENT

\* First slot of the span `new this._type(this.storage.buffer, 8 + wr * 4, first_part)`
FirstSpanStart(wr) == ((8 + wr * 4) - HEADER_BYTES) \div BYTES_PER_ELEMENT

\* First slot of the span `new this._type(this.storage.buffer, 8 + 0, second_part)`
SecondSpanStart == ((8 + 0) - HEADER_BYTES) \div BYTES_PER_ELEMENT

\* A typed-array view of `len` elements at byte offset `off` can be constructed on
\* the buffer: aligned and inside it (otherwise the constructor throws RangeError).
SpanOk(off, len) ==
  /\ off % BYTES_PER_ELEMENT = 0
  /\ off + len * BYTES_PER_ELEMENT <= HEADER_BYTES + _capacity * BYTES_PER_ELEMENT

\* Slot touched by the i-th element the callback of writeCallback fills
\* (first span, then second span), i from 0.
CallbackSlot(wr, first_part, i) ==
  IF i < first_part THEN FirstSpanStart(wr) + i ELSE SecondSpanStart + (i - first_part)

\* Slot of storage read by the i-th element of the two #copy calls of pop.
PopSlot(rd, first_part, i) == IF i < first_part THEN rd + i ELSE 0 + (i - first_part)

Slots == 0 .. (_capacity - 1)

\* The j-th value (from 1) of the call in progress: the values handed to push are
\* numbered in the order in which they are accepted.
Element(j) == Len(pushed) + j

(***************************************************************************)
(* RingBuffer: the producer thread.  One action per shared-memory access;   *)
(* the local computation that follows an access belongs to its action.      *)
(***************************************************************************)
WriteKinds == {"push", "writeCallback"}
ProducerQueries == {"available_write", "full"}
ConsumerQueries == {"available_read", "empty"}

\* The producer calls push(elements), writeCallback(amount, cb), available_write()
\* or full().
PStart(kind, len) ==
  /\ p_pc = "idle"
  /\ kind \in WriteKinds => Len(pushed) + len <= MaxTotal
  /\ kind \in ProducerQueries => len = 0
  /\ p_pc' = "load_rd"
  /\ p_kind' = kind
  /\ p_len' = len
  /\ p_ret' = 0
  /\ p_steps' = 0
  /\ UNCHANGED <<p_rd, p_wr, p_to_write, p_first_part, p_i, p_threw>>
  /\ UNCHANGED <<rbVars, cVars, hVars, arVars, xVars>>

\* var rd = Atomics.load(this.read_ptr, 0)
PLoadRd ==
  /\ p_pc = "load_rd"
  /\ p_rd' = read_ptr
  /\ p_pc' = "load_wr"
  /\ p_steps' = p_steps + 1
  /\ UNCHANGED <<p_kind, p_len, p_wr, p_to_write, p_first_part, p_i, p_ret, p_threw>>
  /\ UNCHANGED <<rbVars, cVars, hVars, arVars, xVars>>

\* The call returns `ret`: the locals die.
PReturn(ret) ==
  /\ p_pc' = "idle"
  /\ p_ret' = ret
  /\ p_rd' = 0 /\ p_wr' = 0 /\ p_to_write' = 0 /\ p_first_part' = 0 /\ p_i' = 0

PLoadWrPublishEarly ==
  /\ p_pc = "load_wr"
  /\ p_steps' = p_steps + 1
  /\ UNCHANGED <<p_kind, p_len, cVars, hVars, arVars, _capacity, read_ptr, storage, xVars>>
  /\ LET wr == write_ptr
         to_write == PushToWrite(p_rd, wr, p_len)
         first_part == PushFirstPart(wr, to_write)
     IN  IF p_kind \in WriteKinds /\ ~IsFull(p_rd, wr)
         THEN /\ p_wr' = wr /\ p_to_write' = to_write /\ p_first_part' = first_part
              /\ p_i' = 0 /\ p_pc' = "copy"
              /\ write_ptr' = (wr + to_write) % storage_capacity
              /\ UNCHANGED <<p_rd, p_ret, p_threw>>
         ELSE /\ PReturn(0) /\ UNCHANGED <<p_threw, write_ptr>>

PLoadWrSpin ==
  /\ p_pc = "load_wr"
  /\ p_steps' = p_steps + 1
  /\ UNCHANGED <<p_kind, p_len, rbVars, cVars, hVars, arVars, xVars>>
  /\ LET wr == write_ptr
         to_write == PushToWrite(p_rd, wr, p_len)
         first_part == PushFirstPart(wr, to_write)
     IN  IF p_kind \in WriteKinds /\ IsFull(p_rd, wr)
         THEN /\ p_pc' = "load_rd"
              /\ UNCHANGED <<p_rd, p_wr, p_to_write, p_first_part, p_i, p_ret, p_threw>>
         ELSE /\ p_wr' = wr /\ p_to_write' = to_write /\ p_first_part' = first_part
              /\ p_i' = 0 /\ p_pc' = "copy"
              /\ UNCHANGED <<p_rd, p_ret, p_threw>>

\* var wr = Atomics.load(this.write_ptr, 0), then everything up to the next access
\* of shared memory: the full test and the lengths of push and writeCallback (and
\* the construction of writeCallback's two spans), the result of a query.
PLoadWr ==
  /\ p_pc = "load_wr"
  /\ p_steps' = p_steps + 1
  /\ UNCHANGED <<p_kind, p_len, rbVars, cVars, hVars, arVars, xVars>>
  /\ LET wr == write_ptr
         to_write == PushToWrite(p_rd, wr, p_len)
         first_part == PushFirstPart(wr, to_write)
         second_part == to_write - first_part
     IN  CASE p_kind = "available_write" ->
                /\ PReturn(available_write_(p_rd, wr)) /\ UNCHANGED p_threw
           [] p_kind = "full" ->
                /\ PReturn(IsFull(p_rd, wr)) /\ UNCHANGED p_threw
           [] p_kind \in WriteKinds /\ IsFull(p_rd, wr) ->
                /\ PReturn(0) /\ UNCHANGED p_threw
           [] p_kind = "writeCallback" /\ ~IsFull(p_rd, wr)
                /\ ~(/\ SpanOk(8 + wr * 4, first_part)
                     /\ SpanOk(8 + 0, second_part)) ->
                /\ PReturn(0) /\ p_threw' = TRUE
           [] OTHER ->
                /\ p_wr' = wr /\ p_to_write' = to_write /\ p_first_part' = first_part
                /\ p_i' = 0 /\ p_pc' = "copy"
                /\ UNCHANGED <<p_rd, p_ret, p_threw>>

\* The slot the producer writes next.
PNextSlot ==
  IF p_kind = "push" THEN PushSlot(p_wr, p_first_part, p_i)
                     ELSE CallbackSlot(p_wr, p_first_part, p_i)

\* One iteration of #copy (push), or one element filled by the callback into its
\* spans (writeCallback).  A store outside a typed array is ignored.
PCopy ==
  /\ p_pc = "copy"
  /\ p_i < p_to_write
  /\ storage' = IF PNextSlot \in DOMAIN storage
                THEN [storage EXCEPT ![PNextSlot] = Element(p_i + 1)]
                ELSE storage
  /\ p_i' = p_i + 1
  /\ p_steps' = p_steps + 1
  /\ UNCHANGED <<p_pc, p_kind, p_len, p_rd, p_wr, p_to_write, p_first_part, p_ret, p_threw>>
  /\ UNCHANGED <<_capacity, write_ptr, read_ptr, cVars, hVars, arVars, xVars>>

\* Atomics.store(this.write_ptr, 0, (wr + to_write) % this.#storage_capacity());
\* return to_write
PStore ==
  /\ p_pc = "copy"
  /\ p_i = p_to_write
  /\ write_ptr' = (p_wr + p_to_write) % storage_capacity
  /\ pushed' = pushed \o [j \in 1 .. p_to_write |-> Element(j)]
  /\ PReturn(p_to_write)
  /\ p_steps' = p_steps + 1
  /\ UNCHANGED <<p_kind, p_len, p_threw>>
  /\ UNCHANGED <<_capacity, read_ptr, storage, cVars, popped, arVars, xVars>>

ProducerStep == PLoadRd \/ PLoadWr \/ PCopy \/ PStore

(***************************************************************************)
(* RingBuffer: the consumer thread                                          *)
(***************************************************************************)
\* The value a typed array yields when read outside its bounds (undefined).
Undefined == -1

\* The consumer calls pop(elements), available_read() or empty().  The array
\* handed to pop is a fresh zero-filled Float32Array.
CStart(kind, len) ==
  /\ c_pc = "idle"
  /\ kind \in ConsumerQueries => len = 0
  /\ c_pc' = "load_rd"
  /\ c_kind' = kind
  /\ c_len' = len
  /\ c_out' = [j \in 1 .. len |-> 0]
  /\ c_ret' = 0
  /\ c_steps' = 0
  /\ UNCHANGED <<c_rd, c_wr, c_to_read, c_first_part, c_i>>
  /\ UNCHANGED <<rbVars, pVars, hVars, arVars, xVars>>

\* var rd = Atomics.load(this.read_ptr, 0)
CLoadRd ==
  /\ c_pc = "load_rd"
  /\ c_rd' = read_ptr
  /\ c_pc' = "load_wr"
  /\ c_steps' = c_steps + 1
  /\ UNCHANGED <<c_kind, c_len, c_wr, c_to_read, c_first_part, c_i, c_out, c_ret>>
  /\ UNCHANGED <<rbVars, pVars, hVars, arVars, xVars>>

\* The call returns `ret`: the locals die.
CReturn(ret) ==
  /\ c_pc' = "idle"
  /\ c_ret' = ret
  /\ c_rd' = 0 /\ c_wr' = 0 /\ c_to_read' = 0 /\ c_first_part' = 0 /\ c_i' = 0

\* var wr = Atomics.load(this.write_ptr, 0), then everything up to the next access
\* of shared memory: the empty test and the lengths of pop, the result of a query.
CLoadWr ==
  /\ c_pc = "load_wr"
  /\ c_steps' = c_steps + 1
  /\ UNCHANGED <<c_kind, c_len, c_out, rbVars, pVars, hVars, arVars, xVars>>
  /\ LET wr == write_ptr
         to_read == PopToRead(c_rd, wr, c_len)
         first_part == PopFirstPart(c_rd, to_read)
     IN  CASE c_kind = "available_read" -> CReturn(available_read_(c_rd, wr))
           [] c_kind = "empty" -> CReturn(wr = c_rd)
           [] c_kind = "pop" /\ wr = c_rd -> CReturn(0)
           [] OTHER ->
                /\ c_wr' = wr /\ c_to_read' = to_read /\ c_first_part' = first_part
                /\ c_i' = 0 /\ c_pc' = "copy"
                /\ UNCHANGED <<c_rd, c_ret>>

\* The slot the consumer reads next.
CNextSlot == PopSlot(c_rd, c_first_part, c_i)

\* One iteration of #copy: output[offset_output + i] = input[offset_input + i]
CCopy ==
  /\ c_pc = "copy"
  /\ c_i < c_to_read
  /\ c_out' = [c_out EXCEPT ![c_i + 1] =
                 IF CNextSlot \in DOMAIN storage THEN storage[CNextSlot] ELSE Undefined]
  /\ c_i' = c_i + 1
  /\ c_steps' = c_steps + 1
  /\ UNCHANGED <<c_pc, c_kind, c_len, c_rd, c_wr, c_to_read, c_first_part, c_ret>>
  /\ UNCHANGED <<rbVars, pVars, hVars, arVars, xVars>>

CStoreZeroesSlot ==
  /\ c_pc = "copy"
  /\ c_i = c_to_read
  /\ read_ptr' = (c_rd + c_to_read) % storage_capacity
  /\ storage' = [storage EXCEPT ![c_rd] = 0]
  /\ popped' = popped \o SubSeq(c_out, 1, c_to_read)
  /\ CReturn(c_to_read)
  /\ c_steps' = c_steps + 1
  /\ UNCHANGED <<c_kind, c_len, c_out>>
  /\ UNCHANGED <<_capacity, write_ptr, pVars, pushed, arVars, xVars>>

\* Atomics.store(this.read_ptr, 0, (rd + to_read) % this.#storage_capacity());
\* return to_read
CStore ==
  /\ c_pc = "copy"
  /\ c_i = c_to_read
  /\ read_ptr' = (c_rd + c_to_read) % storage_capacity
  /\ popped' = popped \o SubSeq(c_out, 1, c_to_read)
  /\ CReturn(c_to_read)
  /\ c_steps' = c_steps + 1
  /\ UNCHANGED <<c_kind, c_len, c_out>>
  /\ UNCHANGED <<_capacity, write_ptr, storage, pVars, pushed, arVars, xVars>>

ConsumerStep == CLoadRd \/ CLoadWr \/ CCopy \/ CStore

(***************************************************************************)
(* SpecRB: one RingBuffer, one producer thread, one consumer thread         *)
(***************************************************************************)
\* The AudioRenderer before its construction.
ARIdle ==
  /\ ar_init = FALSE /\ sampleRate = 0 /\ channelCount = 0
  /\ fillInProgress = FALSE /\ playing = FALSE /\ ready = FALSE
  /\ decodeQueueSize = 0 /\ fillAwaiting = 0 /\ readsPending = 0 /\ timers = 0
  /\ wrote = 0 /\ unitSize = 0
  /\ entryAtTarget = FALSE /\ entrySaturated = FALSE /\ cycleWork = FALSE
  /\ decodes = 0

\* The VideoRenderer and the worker's module state before 'initialize'.
VRIdle ==
  /\ v_init = FALSE /\ frameBuffer = <<>> /\ frameTime = <<>> /\ closes = <<>>
  /\ v_fillInProgress = FALSE /\ v_decodeQueueSize = 0 /\ v_awaiting = 0
  /\ v_timers = 0 /\ v_ready = FALSE /\ v_wasFull = FALSE /\ v_chunks = 0
  /\ chosen = 0 /\ painted = 0

WorkerIdle ==
  /\ w_playing = FALSE /\ w_paused = FALSE /\ raf = 0
  /\ renderTs = -1 /\ prevRenderTs = -1
  /\ initState = "none" /\ posts = 0
  /\ unitsClosed = 0

\* The demuxer after its constructor: #deferredSample = defer(), nothing read.
DXIdle ==
  /\ readySamples = <<>> /\ d_resolved = FALSE /\ d_value = 0 /\ started = FALSE
  /\ delivered = 0 /\ totalSamples = 0 /\ d_waiting = FALSE /\ returned = <<>>
  /\ callExhausted = FALSE /\ callOutcome = "none"

\* The page after the worker posted 'initialize-done': the AudioContext is
\* suspended, the button reads 'Play'.
MTIdle ==
  /\ now = 2 /\ ctxRunning = FALSE /\ ctxTime = 0 /\ buttonText = "Play"
  /\ intervalOn = FALSE /\ suspending = 0 /\ msgs = <<>>
  /\ lastMediaTimeSecs = 0 /\ lastMediaTimeCapturePoint = 0

\* No decoder has reported an error.
EIdle == v_errored = FALSE /\ v_lateDecodes = 0

\* No Defer object is under observation.
DFIdle ==
  /\ df_impl = "none" /\ df_resolved = FALSE /\ df_field = FALSE
  /\ df_promise = <<>> /\ df_args = <<>> /\ df_read = <<>>

\* No decoded unit has been delivered and the sink has not run.
IBIdle ==
  /\ interleavingBuffers = <<>> /\ deinterleaveBuffer = <<>>
  /\ u_count = 0 /\ u_last = <<>> /\ u_prev = <<>> /\ u_realloc = FALSE
  /\ u_outcome = "none" /\ u_start = 0
  /\ published = 0 /\ consumed = 0 /\ underDelivered = FALSE

OthersIdle == VRIdle /\ WorkerIdle /\ DXIdle /\ MTIdle /\ EIdle /\ DFIdle /\ IBIdle

ThreadsIdle ==
  /\ p_pc = "idle" /\ p_kind = "push" /\ p_len = 0 /\ p_rd = 0 /\ p_wr = 0
  /\ p_to_write = 0 /\ p_first_part = 0 /\ p_i = 0 /\ p_ret = 0
  /\ p_threw = FALSE /\ p_steps = 0
  /\ c_pc = "idle" /\ c_kind = "pop" /\ c_len = 0 /\ c_rd = 0 /\ c_wr = 0
  /\ c_to_read = 0 /\ c_first_part = 0 /\ c_i = 0 /\ c_out = <<>> /\ c_ret = 0
  /\ c_steps = 0
  /\ pushed = <<>> /\ popped = <<>>

\* new RingBuffer(RingBuffer.getStorageForCapacity(capacity, type), type):
\* both indices and every slot of a fresh SharedArrayBuffer are zero.
NewRingBuffer(cap) ==
  /\ _capacity = CtorCapacity(getStorageForCapacity(cap))
  /\ write_ptr = 0
  /\ read_ptr = 0

InitRB ==
  /\ NewRingBuffer(RBCapacity)
  /\ OthersIdle
  /\ storage = [s \in 0 .. (_capacity - 1) |-> 0]
  /\ ThreadsIdle
  /\ ARIdle

NextRB ==
  \/ \E kind \in WriteKinds : \E len \in 0 .. MaxLen : PStart(kind, len)
  \/ \E kind \in ProducerQueries : PStart(kind, 0)
  \/ PLoadRd
  \/ PLoadWr
  \/ PCopy
  \/ PStore
  \/ \E len \in 0 .. MaxLen : CStart("pop", len)
  \/ \E kind \in ConsumerQueries : CStart(kind, 0)
  \/ CLoadRd
  \/ CLoadWr
  \/ CCopy
  \/ CStore

SpecRB == InitRB /\ [][NextRB]_vars

(***************************************************************************)
(* RingBuffer: properties                                                   *)
(***************************************************************************)
\* Values accepted and not yet returned by pop.
Unread == Len(pushed) - Len(popped)

\* The slots between the published read index and the published write index.
PublishedSlot(k) == (read_ptr + k) % storage_capacity
PublishedSlots == {PublishedSlot(k) : k \in 0 .. (available_read_(read_ptr, write_ptr) - 1)}

\* The slots the push / writeCallback in progress writes, and those the pop in
\* progress reads.
PSlotsInFlight ==
  {IF p_kind = "push" THEN PushSlot(p_wr, p_first_part, i)
                      ELSE CallbackSlot(p_wr, p_first_part, i) : i \in 0 .. (p_to_write - 1)}
CSlotsInFlight == {PopSlot(c_rd, c_first_part, i) : i \in 0 .. (c_to_read - 1)}

\* C1: with one producer and one consumer, under every interleaving of their
\* index loads, element copies and index stores, the values returned by pop are
\* a prefix of the values accepted by push (nothing lost, duplicated or
\* reordered), and never more are popped than were pushed.
C1_PoppedIsPrefixOfPushed ==
  /\ Len(popped) <= Len(pushed)
  /\ \A j \in 1 .. Len(popped) : popped[j] = pushed[j]
  /\ \A j \in 1 .. Len(pushed) : pushed[j] = j

\* C1 witness: a pop has returned values that wrapped past the end of storage
\* while a push is copying.
C1_Witness ==
  /\ Len(popped) > capacity
  /\ p_pc = "copy" /\ p_i > 0
  /\ c_pc = "copy" /\ c_i > 0

\* C2: pop never copies out a slot the producer has not finished writing and push
\* never overwrites a slot pop has not copied out: every slot between the
\* published indices holds its accepted, not yet popped value; the slots of the
\* write in progress lie outside them and those of the pop in progress inside.
C2_PublishAfterCopy ==
  /\ available_read_(read_ptr, write_ptr) = Unread
  /\ \A k \in 0 .. (available_read_(read_ptr, write_ptr) - 1) :
        /\ Len(popped) + k + 1 <= Len(pushed)
        /\ storage[PublishedSlot(k)] = pushed[Len(popped) + k + 1]
  /\ p_pc = "copy" => PSlotsInFlight \cap PublishedSlots = {}
  /\ c_pc = "copy" => CSlotsInFlight \subseteq PublishedSlots

\* C2 witness: a write is half-way through its copy while a pop has copied a
\* slot out and not yet stored the read index.
C2_Witness ==
  /\ p_pc = "copy" /\ p_i > 0 /\ p_i < p_to_write
  /\ c_pc = "copy" /\ c_i > 0

\* C3: both indices lie in [0, N) and every slot touched by push, by the two
\* spans of writeCallback or by pop lies in [0, N), for any requested length.
C3_InBounds ==
  /\ read_ptr \in Slots
  /\ write_ptr \in Slots
  /\ DOMAIN storage = Slots
  /\ ~p_threw
  /\ p_pc = "copy" => PSlotsInFlight \subseteq Slots
  /\ (p_pc = "copy" /\ p_kind = "writeCallback") =>
        /\ FirstSpanStart(p_wr) + p_first_part <= storage_capacity
        /\ SecondSpanStart + (p_to_write - p_first_part) <= storage_capacity
  /\ c_pc = "copy" => CSlotsInFlight \subseteq Slots

\* C3 witness: a writeCallback asked for more than the capacity and was handed
\* two non-empty spans, while a pop that asked for more than the capacity is
\* about to read a slot.
C3_Witness ==
  /\ p_pc = "copy" /\ p_kind = "writeCallback" /\ p_len > capacity
  /\ 0 < p_first_part /\ p_first_part < p_to_write
  /\ c_pc = "copy" /\ c_len > capacity /\ c_i < c_to_read

\* No push, writeCallback or pop is in flight.
Quiescent ==
  /\ p_pc = "idle" \/ p_kind \in ProducerQueries
  /\ c_pc = "idle" \/ c_kind \in ConsumerQueries

\* C4: at every quiescent point available_read() + available_write() equals
\* capacity(), which is the number of storage slots minus one, the capacity
\* passed to getStorageForCapacity.
C4_QuiescentSum ==
  Quiescent =>
    /\ available_read_(read_ptr, write_ptr) + available_write_(read_ptr, write_ptr)
         = capacity
    /\ available_read_(read_ptr, write_ptr) = Unread
    /\ capacity = Cardinality(DOMAIN storage) - 1
    /\ capacity = RBCapacity

\* C4 witness: a quiescent point with the buffer neither empty nor full and the
\* data wrapped past the end of storage.
C4_Witness ==
  /\ Quiescent
  /\ write_ptr < read_ptr
  /\ 0 < Unread /\ Unread < capacity

\* C5: push returns min(elements.length, available_write) and pop returns
\* min(elements.length, available_read) at the indices loaded by the call, the
\* index advances modulo the storage size by the returned count; a full buffer
\* makes push return 0, an empty one makes pop return 0, without throwing and
\* without changing an index or a slot.
C5_Step ==
  /\ (p_pc # "idle" /\ p_pc' = "idle" /\ p_kind \in WriteKinds) =>
        LET wr == IF p_pc = "load_wr" THEN write_ptr ELSE p_wr
        IN  /\ ~p_threw'
            /\ p_ret' = Min(p_len, capacity - ((wr + storage_capacity - p_rd) % storage_capacity))
            /\ write_ptr' = (wr + p_ret') % storage_capacity
            /\ read_ptr' = read_ptr
            /\ (wr + 1) % storage_capacity = p_rd =>
                 /\ p_ret' = 0
                 /\ p_pc = "load_wr"
                 /\ UNCHANGED <<storage, write_ptr>>
  /\ (p_pc \in {"idle", "load_rd", "load_wr"} /\ p_pc' # p_pc) =>
        UNCHANGED <<storage, write_ptr, read_ptr>>
  /\ (c_pc # "idle" /\ c_pc' = "idle" /\ c_kind = "pop") =>
        LET wr == IF c_pc = "load_wr" THEN write_ptr ELSE c_wr
        IN  /\ c_ret' = Min(c_len, (wr + storage_capacity - c_rd) % storage_capacity)
            /\ read_ptr' = (c_rd + c_ret') % storage_capacity
            /\ write_ptr' = write_ptr
            /\ storage' = storage
            /\ wr = c_rd =>
                 /\ c_ret' = 0
                 /\ c_pc = "load_wr"
                 /\ UNCHANGED read_ptr
  /\ (c_pc \in {"idle", "load_rd", "load_wr"} /\ c_pc' # c_pc) =>
        UNCHANGED <<storage, write_ptr, read_ptr>>
C5_ReturnsMin == [][C5_Step]_vars

\* C5 witness: a push was cut short by the free space and a pop by the data
\* available.
C5_Witness ==
  /\ p_pc = "idle" /\ p_kind = "push" /\ 0 < p_ret /\ p_ret < p_len
  /\ c_pc = "idle" /\ c_kind = "pop" /\ 0 < c_ret /\ c_ret < c_len

\* C6: every call completes within a number of steps bounded by the request
\* length whatever the other thread does: a call in progress can always take its
\* next step, in every state of the other thread.
C6_WaitFree ==
  /\ p_pc # "idle" => ENABLED ProducerStep
  /\ c_pc # "idle" => ENABLED ConsumerStep
  /\ p_steps <= 3 + p_len
  /\ c_steps <= 3 + c_len
  /\ p_kind \in ProducerQueries => p_steps <= 2
  /\ c_kind \in ConsumerQueries => c_steps <= 2

\* C6 witness: the producer found the buffer full and returned while the consumer
\* sits in the middle of a pop that would free it.
C6_Witness ==
  /\ p_pc = "idle" /\ p_kind = "push" /\ p_len > 0 /\ p_ret = 0 /\ p_steps = 2
  /\ c_pc = "copy" /\ c_i > 0

\* C7: available_write() on the producer side never reports more than the slots
\* really free, up to the producer's next call, and available_read() on the
\* consumer side never more than the elements really readable.
C7_NeverOverReports ==
  /\ (p_pc = "idle" /\ p_kind = "available_write") =>
        /\ 0 <= p_ret
        /\ p_ret <= capacity - Unread
  /\ (c_pc = "idle" /\ c_kind = "available_read") =>
        /\ 0 <= c_ret
        /\ c_ret <= Unread

\* C7 witness: after a pop that overlapped it, available_write() has reported
\* fewer slots than are free, and available_read() has reported data.
C7_Witness ==
  /\ p_pc = "idle" /\ p_kind = "available_write" /\ p_ret < capacity - Unread
  /\ c_pc = "idle" /\ c_kind = "available_read" /\ 0 < c_ret

(***************************************************************************)
(* AudioRenderer: one action per event-loop task of the media worker.  The  *)
(* ring buffer is the one above; a call of the worker (writeCallback,       *)
(* available_write) and a pop of the AudioSink worklet each take effect at  *)
(* once, and the sample values are not tracked.  The AudioDecoder is the    *)
(* browser's: decode() adds one to decodeQueueSize and the output callback  *)
(* of a chunk takes one off.                                                *)
(***************************************************************************)
\* ---- bounds of the AudioRenderer model ----
\* setTimeout callbacks pending at once
MaxTimers == 2
\* decode() calls in one behaviour
MaxDecodes == 8

\* Inputs: the track's sample rate and channel count, and the frames of a
\* decoded unit (an AAC frame is 1024 samples per channel).
SampleRates == {8000, 22050}
ChannelCounts == {1, 2}
UnitFrames == {1024}

\* DATA_BUFFER_DECODE_TARGET_DURATION = 0.3 and DATA_BUFFER_DURATION = 0.6, in tenths
\* of a second
DATA_BUFFER_DECODE_TARGET_DURATION_x10 == 3
DATA_BUFFER_DURATION_x10 == 6
DECODER_QUEUE_SIZE_MAX == 5
\* audiosink.ts
RENDER_QUANTUM_SIZE == 128

\* let sampleCountIn500ms = DATA_BUFFER_DURATION * config.sampleRate * config.numberOfChannels
sampleCountIn500ms(sr, ch) == (DATA_BUFFER_DURATION_x10 * sr * ch) \div 10

\* let usedBufferElements = this.ringbuffer.capacity() - this.ringbuffer.available_write()
UsedBufferElements == capacity - available_write_(read_ptr, write_ptr)

UsedAtTargetIsCapacity ==
  UsedBufferElements * 10 >= DATA_BUFFER_DURATION_x10 * (channelCount * sampleRate)

\* usedBufferSecs >= DATA_BUFFER_DECODE_TARGET_DURATION, where
\* usedBufferSecs = usedBufferElements / (this.channelCount * this.sampleRate)
UsedAtTarget ==
  UsedBufferElements * 10 >= DATA_BUFFER_DECODE_TARGET_DURATION_x10 * (channelCount * sampleRate)

\* this.decoder.decodeQueueSize >= DECODER_QUEUE_SIZE_MAX
DecoderSaturated == decodeQueueSize >= DECODER_QUEUE_SIZE_MAX

LoopConditionIgnoresQueue == ~UsedAtTarget

\* the condition of the while loop of #fillDataBufferInternal
LoopCondition == ~UsedAtTarget /\ decodeQueueSize < DECODER_QUEUE_SIZE_MAX

FillGuardMissing == FALSE

\* #fillDataBuffer: if (this.fillInProgress) return
FillGuard == fillInProgress

\* The buffered duration, from the indices themselves.
BufferedAtTarget ==
  ((write_ptr + _capacity - read_ptr) % _capacity) * 10 >= 3 * (channelCount * sampleRate)

FillDataBufferSchedulesWhenPaused(tm) ==
  IF FillGuard
  THEN /\ timers' = tm
       /\ UNCHANGED <<fillInProgress, fillAwaiting, readsPending, ready,
                      entryAtTarget, entrySaturated, cycleWork>>
  ELSE IF ~ar_init'
  THEN \* if (!this.decoder || !this.ringbuffer || ...) return
       /\ timers' = tm
       /\ fillInProgress' = FALSE
       /\ UNCHANGED <<fillAwaiting, readsPending, ready,
                      entryAtTarget, entrySaturated, cycleWork>>
  ELSE /\ entryAtTarget' = BufferedAtTarget'
       /\ entrySaturated' = (decodeQueueSize' >= 5)
       /\ IF DecoderSaturated'
          THEN /\ timers' = tm
               /\ fillInProgress' = FALSE
               /\ cycleWork' = FALSE
               /\ UNCHANGED <<fillAwaiting, readsPending, ready>>
          ELSE IF UsedAtTarget'
          THEN \* if (this.playing) setTimeout(...); resolve ready; return
               /\ tm < MaxTimers
               /\ timers' = tm + 1
               /\ ready' = TRUE
               /\ fillInProgress' = FALSE
               /\ cycleWork' = FALSE
               /\ UNCHANGED <<fillAwaiting, readsPending>>
          ELSE IF LoopCondition'
          THEN \* let chunk = await this.demuxer.getNextChunk()
               /\ timers' = tm
               /\ fillInProgress' = TRUE
               /\ fillAwaiting' = fillAwaiting + 1
               /\ readsPending' = readsPending + 1
               /\ cycleWork' = TRUE
               /\ UNCHANGED ready
          ELSE /\ timers' = tm
               /\ fillInProgress' = FALSE
               /\ cycleWork' = FALSE
               /\ UNCHANGED <<fillAwaiting, readsPending, ready>>

\* A call of #fillDataBuffer() at the end of a task that leaves `tm` timers
\* pending; the task's own assignments are made before it.  The call runs
\* #fillDataBufferInternal up to its return or its first await; the assignment
\* fillInProgress = false that follows a return is a microtask of the same task.
FillDataBuffer(tm) ==
  IF FillGuard
  THEN /\ timers' = tm
       /\ UNCHANGED <<fillInProgress, fillAwaiting, readsPending, ready,
                      entryAtTarget, entrySaturated, cycleWork>>
  ELSE IF ~ar_init'
  THEN \* if (!this.decoder || !this.ringbuffer || ...) return
       /\ timers' = tm
       /\ fillInProgress' = FALSE
       /\ UNCHANGED <<fillAwaiting, readsPending, ready,
                      entryAtTarget, entrySaturated, cycleWork>>
  ELSE /\ entryAtTarget' = BufferedAtTarget'
       /\ entrySaturated' = (decodeQueueSize' >= 5)
       /\ IF DecoderSaturated'
          THEN /\ timers' = tm
               /\ fillInProgress' = FALSE
               /\ cycleWork' = FALSE
               /\ UNCHANGED <<fillAwaiting, readsPending, ready>>
          ELSE IF UsedAtTarget'
          THEN \* if (this.playing) setTimeout(...); resolve ready; return
               /\ playing' => tm < MaxTimers
               /\ timers' = IF playing' THEN tm + 1 ELSE tm
               /\ ready' = TRUE
               /\ fillInProgress' = FALSE
               /\ cycleWork' = FALSE
               /\ UNCHANGED <<fillAwaiting, readsPending>>
          ELSE IF LoopCondition'
          THEN \* let chunk = await this.demuxer.getNextChunk()
               /\ timers' = tm
               /\ fillInProgress' = TRUE
               /\ fillAwaiting' = fillAwaiting + 1
               /\ readsPending' = readsPending + 1
               /\ cycleWork' = TRUE
               /\ UNCHANGED ready
          ELSE /\ timers' = tm
               /\ fillInProgress' = FALSE
               /\ cycleWork' = FALSE
               /\ UNCHANGED <<fillAwaiting, readsPending, ready>>

\* constructor, first part of the initialize().then() callback: the decoder is
\* created and the track's sample rate and channel count are stored.
ARConfigure(sr, ch) ==
  /\ ~ar_init /\ sampleRate = 0
  /\ sampleRate' = sr
  /\ channelCount' = ch
  /\ UNCHANGED <<ar_init, fillInProgress, playing, ready, decodeQueueSize, fillAwaiting,
                 readsPending, timers, wrote, unitSize, entryAtTarget, entrySaturated,
                 cycleWork, decodes>>
  /\ UNCHANGED <<rbVars, pVars, cVars, hVars, xVars>>

\* constructor, after await AudioDecoder.isConfigSupported(config): the decoder is
\* configured, the ring buffer is created and #fillDataBuffer() is called.
ARInitialize ==
  /\ ~ar_init /\ sampleRate # 0
  /\ ar_init' = TRUE
  /\ _capacity' = CtorCapacity(getStorageForCapacity(sampleCountIn500ms(sampleRate, channelCount)))
  /\ write_ptr' = 0
  /\ read_ptr' = 0
  /\ UNCHANGED <<sampleRate, channelCount, playing, decodeQueueSize, wrote, unitSize, decodes>>
  /\ FillDataBuffer(timers)
  /\ UNCHANGED <<storage, pVars, cVars, hVars, xVars>>

\* play(), called by the worker's 'play' handler; the page posts 'play' only
\* after 'initialize-done', which the worker posts after `ready`.
Play ==
  /\ ready
  /\ playing' = TRUE
  /\ UNCHANGED <<ar_init, sampleRate, channelCount, decodeQueueSize, wrote, unitSize, decodes>>
  /\ UNCHANGED <<rbVars, pVars, cVars, hVars, xVars>>
  /\ FillDataBuffer(timers)

PauseCancelsRead ==
  /\ ready
  /\ playing' = FALSE
  /\ fillInProgress' = FALSE
  /\ fillAwaiting' = 0
  /\ readsPending' = 0
  /\ UNCHANGED <<ar_init, sampleRate, channelCount, ready, decodeQueueSize,
                 timers, wrote, unitSize, entryAtTarget,
                 entrySaturated, cycleWork, decodes>>
  /\ UNCHANGED <<rbVars, pVars, cVars, hVars, xVars>>

\* pause()
Pause ==
  /\ ready
  /\ playing' = FALSE
  /\ UNCHANGED <<ar_init, sampleRate, channelCount, fillInProgress, ready, decodeQueueSize,
                 fillAwaiting, readsPending, timers, wrote, unitSize, entryAtTarget,
                 entrySaturated, cycleWork, decodes>>
  /\ UNCHANGED <<rbVars, pVars, cVars, hVars, xVars>>

\* A setTimeout(this.#fillDataBuffer.bind(this), ...) callback fires.
TimerFire ==
  /\ timers > 0
  /\ UNCHANGED <<ar_init, sampleRate, channelCount, playing, decodeQueueSize, wrote,
                 unitSize, decodes>>
  /\ UNCHANGED <<rbVars, pVars, cVars, hVars, xVars>>
  /\ FillDataBuffer(timers - 1)

\* The decoder delivers a decoded unit of `frames` frames: bufferAudioData(data).
\* writeCallback(numberOfFrames * numberOfChannels, cb) writes what fits, then
\* #fillDataBuffer() is called.  The handler makes no call of data.close().
BufferAudioData(frames) ==
  /\ ar_init
  /\ decodeQueueSize > 0
  /\ decodeQueueSize' = decodeQueueSize - 1
  /\ LET amount == frames * channelCount
         rd == read_ptr
         wr == write_ptr
         to_write == IF IsFull(rd, wr) THEN 0 ELSE PushToWrite(rd, wr, amount)
     IN  /\ write_ptr' = (wr + to_write) % storage_capacity
         /\ wrote' = to_write
         /\ unitSize' = amount
  /\ UNCHANGED <<ar_init, sampleRate, channelCount, playing, decodes>>
  /\ UNCHANGED <<_capacity, read_ptr, storage, pVars, cVars, hVars, xVars>>
  /\ FillDataBuffer(timers)

\* The demuxer resolves the getNextChunk() a fill cycle awaits: the cycle calls
\* this.decoder.decode(chunk), computes usedBufferSecs again and either awaits the
\* next chunk or leaves the loop, which ends the cycle.
ChunkResolved ==
  /\ fillAwaiting > 0
  /\ readsPending > 0
  /\ decodes < MaxDecodes
  /\ decodes' = decodes + 1
  /\ decodeQueueSize' = decodeQueueSize + 1
  /\ cycleWork' = TRUE
  /\ UNCHANGED <<ar_init, sampleRate, channelCount, playing, ready, timers, wrote,
                 unitSize, entryAtTarget, entrySaturated>>
  /\ UNCHANGED <<rbVars, pVars, cVars, hVars, xVars>>
  /\ IF LoopCondition'
     THEN UNCHANGED <<fillAwaiting, readsPending, fillInProgress>>
     ELSE /\ fillAwaiting' = fillAwaiting - 1
          /\ readsPending' = readsPending - 1
          /\ fillInProgress' = FALSE

\* AudioSink.process: this.consumerSide.pop(this.deinterleaveBuffer), a buffer of
\* mediaChannelCount * RENDER_QUANTUM_SIZE elements.  The worklet exists once the
\* page has received 'initialize-done'.
SinkProcess ==
  /\ ready
  /\ LET rd == read_ptr
         wr == write_ptr
         to_read == IF wr = rd THEN 0
                    ELSE PopToRead(rd, wr, channelCount * RENDER_QUANTUM_SIZE)
     IN  read_ptr' = (rd + to_read) % storage_capacity
  /\ UNCHANGED <<_capacity, write_ptr, storage, pVars, cVars, hVars, arVars, xVars>>

InitAR ==
  /\ _capacity = 0 /\ write_ptr = 0 /\ read_ptr = 0 /\ storage = <<>>
  /\ OthersIdle
  /\ ThreadsIdle
  /\ ARIdle

NextAR ==
  \/ \E sr \in SampleRates : \E ch \in ChannelCounts : ARConfigure(sr, ch)
  \/ ARInitialize
  \/ Play
  \/ Pause
  \/ TimerFire
  \/ \E frames \in UnitFrames : BufferAudioData(frames)
  \/ ChunkResolved
  \/ SinkProcess

SpecAR == InitAR /\ [][NextAR]_vars

(***************************************************************************)
(* AudioRenderer: properties                                                *)
(***************************************************************************)
\* C8: with the decode target (0.3 s) below the ring-buffer capacity (0.6 s) and
\* at most 5 decodes in flight, every writeCallback of bufferAudioData writes the
\* whole decoded unit: the returned count equals numberOfFrames *
\* numberOfChannels and no decoded sample is dropped.
C8_WholeUnitWritten ==
  /\ decodeQueueSize <= 5
  /\ wrote = unitSize

\* C9: at most one execution of #fillDataBufferInternal is in progress at any
\* time, so at most one getNextChunk() is outstanding on the audio demuxer.
C9_SingleFillCycle ==
  /\ fillAwaiting <= 1
  /\ readsPending <= 1
  /\ fillAwaiting = 1 => fillInProgress

\* C9 witness: a fill cycle awaits its chunk while a decoder output and a timer,
\* each of which calls #fillDataBuffer, are pending and playback is on.
C9_Witness ==
  /\ fillAwaiting = 1 /\ readsPending = 1
  /\ decodeQueueSize > 0
  /\ timers > 0
  /\ playing

\* C10: a fill cycle invoked with the buffered duration at or above the decode
\* target, or with decodeQueueSize at the maximum (5), submits no decode() and
\* pulls no chunk from the demuxer.
C10_NoWorkAtTargetOrSaturated ==
  (entryAtTarget \/ entrySaturated) => (~cycleWork /\ fillAwaiting = 0 /\ readsPending = 0)

\* C10 witness: the last fill cycle was invoked with 5 decodes in flight and did
\* nothing, after an earlier one was invoked at the target (it resolved `ready`).
C10_Witness ==
  /\ entrySaturated /\ ~entryAtTarget
  /\ decodeQueueSize = 5
  /\ ready
  /\ ~cycleWork

(***************************************************************************)
(* SpecVR: the VideoRenderer and the worker tasks that drive it             *)
(***************************************************************************)
\* ---- bounds of the VideoRenderer model ----
\* chunks the video demuxer yields in the runs explored
MaxFrames == 6
\* setTimeout(fillFrameBuffer, 0) callbacks pending at the same time
MaxVTimers == 2
\* requestAnimationFrame callbacks pending at the same time
MaxRaf == 2

\* timestamps (microseconds) of decoded frames and of render calls
FrameTimes == {100, 200, 300}
QueryTimes == {100, 150, 210, 300}

\* const FRAME_BUFFER_TARGET_SIZE = 3
FRAME_BUFFER_TARGET_SIZE == 3

\* let minTimeDelta = Number.MAX_VALUE
MAX_VALUE == 1000000000

\* Math.abs
Abs(x) == IF x < 0 THEN -x ELSE x

\* this.frameBuffer[i].timestamp, i counted from 1
Timestamp(buf, i) == frameTime[buf[i]]

RECURSIVE ScanSigned(_, _, _, _, _)
ScanSigned(buf, timestamp, i, minTimeDelta, frameIndex) ==
  IF i > Len(buf)
  THEN frameIndex
  ELSE LET time_delta == timestamp - Timestamp(buf, i)
       IN  IF time_delta < minTimeDelta
           THEN ScanSigned(buf, timestamp, i + 1, time_delta, i)
           ELSE frameIndex

\* The scan of chooseFrame: for (let i = 0; ...) { if (time_delta < minTimeDelta)
\* {...} else break }.  Positions are counted from 1, so the result is the
\* code's frameIndex + 1.
RECURSIVE Scan(_, _, _, _, _)
Scan(buf, timestamp, i, minTimeDelta, frameIndex) ==
  IF i > Len(buf)
  THEN frameIndex
  ELSE LET time_delta == Abs(timestamp - Timestamp(buf, i))
       IN  IF time_delta < minTimeDelta
           THEN Scan(buf, timestamp, i + 1, time_delta, i)
           ELSE frameIndex

\* the position in buf of the frame chooseFrame(timestamp) returns
ChosenIndex(buf, timestamp) == Scan(buf, timestamp, 1, MAX_VALUE, 0)

StaleKeepsLast(buf, k) == {buf[j] : j \in 1 .. k}

\* for (let i = 0; i < frameIndex; i++) this.frameBuffer.shift().close():
\* the frames closed when the frame at position k is chosen
Stale(buf, k) == {buf[j] : j \in 1 .. (k - 1)}

frameBufferNotEmpty(buf) == Len(buf) >= 1

\* frameBufferFull()
frameBufferFull(buf) == Len(buf) >= FRAME_BUFFER_TARGET_SIZE

VLoopConditionIgnoresQueue(buf, dqs, init) ==
  /\ Len(buf) < FRAME_BUFFER_TARGET_SIZE
  /\ init

\* the condition of the while loop of fillFrameBuffer
VLoopCondition(buf, dqs, init) ==
  /\ Len(buf) < FRAME_BUFFER_TARGET_SIZE
  /\ init
  /\ dqs < FRAME_BUFFER_TARGET_SIZE

FillFrameBufferUnguarded(buf, dqs, init, tm) ==
  IF frameBufferFull(buf)
  THEN /\ v_ready' = TRUE
       /\ v_timers' = tm
       /\ UNCHANGED <<v_fillInProgress, v_awaiting>>
  ELSE IF VLoopCondition(buf, dqs, init)
  THEN /\ v_fillInProgress' = TRUE
       /\ v_awaiting' = v_awaiting + 1
       /\ v_timers' = tm
       /\ UNCHANGED v_ready
  ELSE /\ tm < MaxVTimers
       /\ v_fillInProgress' = FALSE
       /\ v_timers' = tm + 1
       /\ UNCHANGED <<v_ready, v_awaiting>>

\* A call of fillFrameBuffer() at the end of a task that leaves the queue buf,
\* the decoder (configured: init) with dqs chunks queued and tm timers pending.
\* It runs up to its return or to its first await.
FillFrameBuffer(buf, dqs, init, tm) ==
  IF frameBufferFull(buf)
  THEN \* if (!this.#deferredReady.resolved) this.#deferredReady.resolve(); return
       /\ v_ready' = TRUE
       /\ v_timers' = tm
       /\ UNCHANGED <<v_fillInProgress, v_awaiting>>
  ELSE IF v_fillInProgress
  THEN /\ v_timers' = tm
       /\ UNCHANGED <<v_ready, v_fillInProgress, v_awaiting>>
  ELSE IF VLoopCondition(buf, dqs, init)
  THEN \* let chunk = await this.demuxer.getNextChunk()
       /\ v_fillInProgress' = TRUE
       /\ v_awaiting' = v_awaiting + 1
       /\ v_timers' = tm
       /\ UNCHANGED v_ready
  ELSE \* this.fillInProgress = false; setTimeout(this.fillFrameBuffer.bind(this), 0)
       /\ tm < MaxVTimers
       /\ v_fillInProgress' = FALSE
       /\ v_timers' = tm + 1
       /\ UNCHANGED <<v_ready, v_awaiting>>

OtherThanVideoLoop ==
  <<rbVars, pVars, cVars, hVars, arVars, unitsClosed, iVars, dxVars, mtVars, zVars>>
OtherThanVideo == <<OtherThanVideoLoop, eVars>>

\* #initialize, after its awaits: the decoder is created and configured and
\* fillFrameBuffer() is called.
VRInitialize ==
  /\ ~v_init
  /\ v_init' = TRUE
  /\ FillFrameBuffer(frameBuffer, v_decodeQueueSize, TRUE, v_timers)
  /\ UNCHANGED <<frameBuffer, frameTime, closes, v_decodeQueueSize, v_wasFull, v_chunks,
                 chosen, painted, wVars, OtherThanVideo>>

\* The demuxer resolves the getNextChunk() fillFrameBuffer awaits: the loop calls
\* this.decoder.decode(chunk) and either awaits the next chunk or ends, clearing
\* fillInProgress and scheduling the next fillFrameBuffer.
VChunkResolved ==
  /\ v_awaiting > 0
  /\ v_chunks < MaxFrames
  /\ v_chunks' = v_chunks + 1
  /\ IF v_errored
     THEN \* decode() on the decoder its error closed throws: the async function
          \* ends there, before this.fillInProgress = false
          /\ v_lateDecodes' = v_lateDecodes + 1
          /\ v_awaiting' = v_awaiting - 1
          /\ UNCHANGED <<v_decodeQueueSize, v_fillInProgress, v_timers, v_errored>>
     ELSE /\ v_decodeQueueSize' = v_decodeQueueSize + 1
          /\ IF VLoopCondition(frameBuffer, v_decodeQueueSize + 1, v_init)
             THEN UNCHANGED <<v_awaiting, v_fillInProgress, v_timers>>
             ELSE /\ v_timers < MaxVTimers
                  /\ v_awaiting' = v_awaiting - 1
                  /\ v_fillInProgress' = FALSE
                  /\ v_timers' = v_timers + 1
          /\ UNCHANGED eVars
  /\ UNCHANGED <<v_init, frameBuffer, frameTime, closes, v_ready, v_wasFull, chosen,
                 painted, wVars, OtherThanVideoLoop>>

\* the setTimeout(this.fillFrameBuffer.bind(this), 0) callback
VTimerFire ==
  /\ v_timers > 0
  /\ FillFrameBuffer(frameBuffer, v_decodeQueueSize, v_init, v_timers - 1)
  /\ UNCHANGED <<v_init, frameBuffer, frameTime, closes, v_decodeQueueSize, v_wasFull,
                 v_chunks, chosen, painted, wVars, OtherThanVideo>>

\* the timestamp of the frame the decoder output last (0: none yet)
LastOutputTime == IF frameTime = <<>> THEN 0 ELSE frameTime[Len(frameTime)]

bufferFrameUnshift(t) ==
  /\ v_decodeQueueSize > 0
  /\ t >= LastOutputTime
  /\ v_decodeQueueSize' = v_decodeQueueSize - 1
  /\ frameTime' = Append(frameTime, t)
  /\ closes' = Append(closes, 0)
  /\ frameBuffer' = <<Len(frameTime) + 1>> \o frameBuffer
  /\ v_wasFull' = (v_wasFull \/ Len(frameBuffer') >= 3)
  /\ UNCHANGED <<v_init, v_fillInProgress, v_awaiting, v_timers, v_ready, v_chunks,
                 chosen, painted, wVars, OtherThanVideo>>

\* The decoder's output callback, bufferFrame(frame): this.frameBuffer.push(frame).
\* Frames come out in presentation order, so timestamps do not decrease.
bufferFrame(t) ==
  /\ v_decodeQueueSize > 0
  /\ t >= LastOutputTime
  /\ v_decodeQueueSize' = v_decodeQueueSize - 1
  /\ frameTime' = Append(frameTime, t)
  /\ closes' = Append(closes, 0)
  /\ frameBuffer' = Append(frameBuffer, Len(frameTime) + 1)
  /\ v_wasFull' = (v_wasFull \/ Len(frameBuffer') >= 3)
  /\ UNCHANGED <<v_init, v_fillInProgress, v_awaiting, v_timers, v_ready, v_chunks,
                 chosen, painted, wVars, OtherThanVideo>>

RemainingAll(buf, k) == buf

\* this.frameBuffer after the shifts: the chosen frame and every later one
Remaining(buf, k) == SubSeq(buf, k, Len(buf))

RenderReturnsBeforeFill(timestamp) ==
  LET buf == frameBuffer
      k == ChosenIndex(buf, timestamp)
      rest == IF buf = <<>> THEN <<>> ELSE Remaining(buf, k)
      frame == IF buf = <<>> THEN 0 ELSE rest[1]
  IN  /\ frameBuffer' = rest
      /\ closes' = [f \in DOMAIN closes |->
                      IF buf # <<>> /\ f \in Stale(buf, k) THEN closes[f] + 1
                      ELSE closes[f]]
      /\ chosen' = frame
      /\ IF frame = 0
         THEN UNCHANGED <<v_ready, v_fillInProgress, v_awaiting, v_timers>>
         ELSE FillFrameBuffer(rest, v_decodeQueueSize, v_init, v_timers)
      /\ painted' = IF frame = 0 THEN painted ELSE frame
      /\ UNCHANGED <<v_init, frameTime, v_decodeQueueSize, v_wasFull, v_chunks>>

\* render(timestamp): chooseFrame(timestamp), fillFrameBuffer(), paint(frame)
Render(timestamp) ==
  LET buf == frameBuffer
      k == ChosenIndex(buf, timestamp)
      rest == IF buf = <<>> THEN <<>> ELSE Remaining(buf, k)
      frame == IF buf = <<>> THEN 0 ELSE rest[1]
  IN  /\ frameBuffer' = rest
      /\ closes' = [f \in DOMAIN closes |->
                      IF buf # <<>> /\ f \in Stale(buf, k) THEN closes[f] + 1
                      ELSE closes[f]]
      /\ chosen' = frame
      /\ FillFrameBuffer(rest, v_decodeQueueSize, v_init, v_timers)
      /\ painted' = IF frame = 0 THEN painted ELSE frame
      /\ UNCHANGED <<v_init, frameTime, v_decodeQueueSize, v_wasFull, v_chunks>>

\* The worker's 'play' handler, as far as the video side goes: playing = true and
\* a requestAnimationFrame(renderVideo).  The page posts 'play' only after
\* 'initialize-done'.  (updateMediaTime is followed under SpecMT, and
\* audioRenderer.play() is the action Play of SpecAR.)
WorkerPlay ==
  /\ v_ready
  /\ raf < MaxRaf
  /\ w_playing' = TRUE
  /\ w_paused' = FALSE
  /\ raf' = raf + 1
  /\ UNCHANGED <<renderTs, prevRenderTs, vrVars, OtherThanVideo>>

\* The worker's 'pause' handler: playing = false (audioRenderer.pause() is the
\* action Pause of SpecAR).
WorkerPause ==
  /\ w_playing
  /\ w_playing' = FALSE
  /\ w_paused' = TRUE
  /\ UNCHANGED <<raf, renderTs, prevRenderTs, vrVars, OtherThanVideo>>

\* The requestAnimationFrame callback renderVideo, run with the media time
\* `timestamp` that getMediaTimeMicroSeconds() returns.
RenderVideo(timestamp) ==
  /\ raf > 0
  /\ IF ~w_playing
     THEN \* if (!playing) return
          /\ raf' = raf - 1
          /\ UNCHANGED <<renderTs, prevRenderTs, vrVars>>
     ELSE /\ Render(timestamp)
          /\ prevRenderTs' = renderTs
          /\ renderTs' = timestamp
          /\ UNCHANGED raf
  /\ UNCHANGED <<w_playing, w_paused, OtherThanVideo>>

InitVR ==
  /\ _capacity = 0 /\ write_ptr = 0 /\ read_ptr = 0 /\ storage = <<>>
  /\ ThreadsIdle
  /\ ARIdle
  /\ OthersIdle

NextVR ==
  \/ VRInitialize
  \/ VChunkResolved
  \/ VTimerFire
  \/ \E t \in FrameTimes : bufferFrame(t)
  \/ WorkerPlay
  \/ WorkerPause
  \/ \E timestamp \in QueryTimes : RenderVideo(timestamp)

SpecVR == InitVR /\ [][NextVR]_vars

(***************************************************************************)
(* VideoRenderer: properties                                                *)
(***************************************************************************)
\* timestamps of the queue strictly increase from the front
StrictlyIncreasing(buf) ==
  \A j \in 1 .. (Len(buf) - 1) : Timestamp(buf, j) < Timestamp(buf, j + 1)

\* timestamps of the queue do not decrease from the front
NonDecreasing(buf) ==
  \A j \in 1 .. (Len(buf) - 1) : Timestamp(buf, j) <= Timestamp(buf, j + 1)

\* the least abs(timestamp - frame.timestamp) over the whole queue
MinDelta(buf, timestamp) ==
  LET deltas == {Abs(timestamp - Timestamp(buf, j)) : j \in 1 .. Len(buf)}
  IN  CHOOSE d \in deltas : \A e \in deltas : d <= e

\* a call of render(timestamp) on a non-empty queue
RenderCall(timestamp) == RenderVideo(timestamp) /\ w_playing /\ frameBuffer # <<>>

\* C11 (as stated): on every non-empty queue whose timestamps do not decrease,
\* the frame chooseFrame returns has the least abs(timestamp - frame.timestamp)
\* of the whole queue.
C11_NearestInNonDecreasingQueue ==
  [][\A timestamp \in QueryTimes :
       (RenderCall(timestamp) /\ NonDecreasing(frameBuffer))
         => Abs(timestamp - frameTime[chosen']) = MinDelta(frameBuffer, timestamp)]_vars

\* C11 (amended): on every non-empty queue whose timestamps strictly increase,
\* the frame chooseFrame returns has the least abs(timestamp - frame.timestamp)
\* of the whole queue.
C11_NearestInIncreasingQueue ==
  [][\A timestamp \in QueryTimes :
       (RenderCall(timestamp) /\ StrictlyIncreasing(frameBuffer))
         => Abs(timestamp - frameTime[chosen']) = MinDelta(frameBuffer, timestamp)]_vars

\* C11 witness: the scan stopped at a tie (150 is as far from 100 as from 200) in
\* a strictly increasing queue and returned the frame before the tie.
C11_Witness ==
  /\ renderTs = 150
  /\ chosen # 0
  /\ Len(frameBuffer) >= 3
  /\ StrictlyIncreasing(frameBuffer)
  /\ frameBuffer[1] = chosen
  /\ frameTime[chosen] = 100
  /\ Timestamp(frameBuffer, 2) = 200

\* C12: chooseFrame closes and removes exactly the frames before the chosen one,
\* leaves the chosen frame at the front, unclosed, and leaves every later frame
\* in place and unclosed.
C12_ClosesExactlyStale ==
  [][\A timestamp \in QueryTimes :
       RenderCall(timestamp) =>
         \E k \in 1 .. Len(frameBuffer) :
           /\ chosen' = frameBuffer[k]
           /\ frameBuffer' = SubSeq(frameBuffer, k, Len(frameBuffer))
           /\ \A j \in 1 .. Len(frameBuffer) :
                closes'[frameBuffer[j]] = IF j < k THEN closes[frameBuffer[j]] + 1
                                          ELSE closes[frameBuffer[j]]
           /\ \A j \in 1 .. Len(frameBuffer') : closes'[frameBuffer'[j]] = 0]_vars

\* C12 witness: the queue [100, 200, 300] asked for 210 gave the frame 200,
\* closed the frame 100 and left [200, 300].
C12_Witness ==
  /\ renderTs = 210
  /\ prevRenderTs = -1
  /\ chosen # 0
  /\ frameTime[chosen] = 200
  /\ Len(frameBuffer) = 2
  /\ frameBuffer[1] = chosen
  /\ Timestamp(frameBuffer, 2) = 300
  /\ \E f \in DOMAIN closes : frameTime[f] = 100 /\ closes[f] = 1
  /\ \A f \in DOMAIN closes : frameTime[f] # 100 => closes[f] = 0

\* C13: no frame is closed more than once, and no closed frame is held in the
\* queue, returned by chooseFrame or painted.
C13_ClosedOnceNeverUsedAfter ==
  /\ \A f \in DOMAIN closes : closes[f] <= 1
  /\ \A j \in 1 .. Len(frameBuffer) : closes[frameBuffer[j]] = 0
  /\ chosen # 0 => closes[chosen] = 0
  /\ painted # 0 => closes[painted] = 0

\* C13 witness: after two calls of render that each dropped a frame, a third
\* frame is the one returned and painted.
C13_Witness ==
  /\ prevRenderTs # -1
  /\ Cardinality({f \in DOMAIN closes : closes[f] = 1}) >= 2
  /\ chosen # 0
  /\ painted = chosen
  /\ closes[chosen] = 0

\* C14: once playback is paused and nothing is scheduled any more (no animation
\* frame callback, no timer, no decode or demuxer read in progress), no unclosed
\* frame is held in the queue.
C14_NoFrameHeldAfterPause ==
  (/\ w_paused
   /\ raf = 0
   /\ v_timers = 0
   /\ v_decodeQueueSize = 0
   /\ ~v_fillInProgress)
    => \A j \in 1 .. Len(frameBuffer) : closes[frameBuffer[j]] > 0

(***************************************************************************)
(* AudioRenderer: release of decoded units, pause                           *)
(***************************************************************************)
\* decoded units the decoder has delivered to bufferAudioData so far
UnitsDelivered == decodes - decodeQueueSize

\* C15: every decoded audio unit delivered to bufferAudioData is closed exactly
\* once: as many close() calls have been made as units were delivered.
C15_EveryUnitClosedOnce == unitsClosed = UnitsDelivered

\* C20: pause() changes only the playing flag (ring-buffer indices and contents,
\* fill guard, pending demuxer read, decoder queue and timers stay as they are),
\* and a decoder output that arrives while paused is written to the ring buffer
\* as far as it fits, as it is while playing.
C20_PauseOnlyClearsPlaying ==
  [][/\ Pause =>
          /\ ~playing'
          /\ UNCHANGED <<rbVars, fillInProgress, fillAwaiting, readsPending,
                         decodeQueueSize, timers, ready, decodes, wrote, unitSize>>
     /\ (~playing /\ decodeQueueSize' < decodeQueueSize) =>
          /\ wrote' = Min(unitSize', available_write_(read_ptr, write_ptr))
          /\ write_ptr' = (write_ptr + wrote') % _capacity
          /\ read_ptr' = read_ptr]_vars

\* C20 witness: paused after playing (a refill timer is still pending) with a
\* demuxer read outstanding, decodes in flight and samples in the ring buffer.
C20_Witness ==
  /\ ready
  /\ ~playing
  /\ timers > 0
  /\ fillAwaiting = 1
  /\ readsPending = 1
  /\ decodeQueueSize > 0
  /\ write_ptr # read_ptr

(***************************************************************************)
(* SpecDX: MP4PullDemuxer over the push-based MP4 source                    *)
(***************************************************************************)
\* ---- bounds of the demuxer model ----
\* samples in the longest track explored
MaxSamples == 52
\* getNextChunk() calls made in the runs explored
MaxCalls == 4

\* sizes of the batches the MP4 source passes to onSamples
BatchSizes == {1, 2, 50}

\* const SAMPLE_BUFFER_TARGET_SIZE = 50
SAMPLE_BUFFER_TARGET_SIZE == 50

OtherThanDemuxer ==
  <<rbVars, pVars, cVars, hVars, arVars, unitsClosed, vrVars, wVars, iVars, mtVars, eVars,
    zVars>>

\* the stream is exhausted: the source has delivered every sample of the track
\* and every ready sample has been consumed
Exhausted == delivered = totalSamples /\ readySamples = <<>>

\* getNextChunk(): const sample = await this._readSample(), made when no earlier
\* call is outstanding.  _readSample returns the first ready sample, or starts
\* the source and returns #deferredSample.promise, the one promise the
\* constructor created; a call that gets the promise already resolved resolves
\* with the value the promise holds.
getNextChunk ==
  /\ ~d_waiting
  /\ Len(returned) < MaxCalls
  /\ callExhausted' = Exhausted
  /\ IF Len(readySamples) > 0
     THEN \* return Promise.resolve(this.readySamples.shift())
          /\ returned' = Append(returned, Head(readySamples))
          /\ readySamples' = Tail(readySamples)
          /\ callOutcome' = "resolved"
          /\ UNCHANGED <<started, d_waiting>>
     ELSE \* this.source.start(...); return this.#deferredSample.promise
          /\ started' = TRUE
          /\ UNCHANGED readySamples
          /\ IF d_resolved
             THEN /\ returned' = Append(returned, d_value)
                  /\ callOutcome' = "resolved"
                  /\ UNCHANGED d_waiting
             ELSE /\ d_waiting' = TRUE
                  /\ callOutcome' = "pending"
                  /\ UNCHANGED returned
  /\ UNCHANGED <<d_resolved, d_value, delivered, totalSamples, OtherThanDemuxer>>

\* the samples delivered + 1 .. delivered + n, in order
Batch(n) == [j \in 1 .. n |-> delivered + j]

\* The started source delivers the next n samples of the track: _onSamples(samples).
_onSamples(n) ==
  /\ started
  /\ n <= totalSamples - delivered
  /\ delivered' = delivered + n
  /\ LET samples == readySamples \o Batch(n)
     IN  /\ started' = (Len(samples) < SAMPLE_BUFFER_TARGET_SIZE)
         /\ IF ~d_resolved
            THEN \* this.#deferredSample.resolve(this.readySamples.shift())
                 /\ d_resolved' = TRUE
                 /\ d_value' = Head(samples)
                 /\ readySamples' = Tail(samples)
                 /\ IF d_waiting
                    THEN /\ returned' = Append(returned, Head(samples))
                         /\ callOutcome' = "resolved"
                         /\ d_waiting' = FALSE
                    ELSE UNCHANGED <<returned, callOutcome, d_waiting>>
            ELSE /\ readySamples' = samples
                 /\ UNCHANGED <<d_resolved, d_value, returned, callOutcome, d_waiting>>
  /\ UNCHANGED <<totalSamples, callExhausted, OtherThanDemuxer>>

\* A demuxer whose track has been selected, over a track of 1 .. MaxSamples samples.
InitDX ==
  /\ _capacity = 0 /\ write_ptr = 0 /\ read_ptr = 0 /\ storage = <<>>
  /\ ThreadsIdle
  /\ ARIdle
  /\ VRIdle /\ WorkerIdle /\ MTIdle /\ EIdle /\ DFIdle /\ IBIdle
  /\ readySamples = <<>> /\ d_resolved = FALSE /\ d_value = 0 /\ started = FALSE
  /\ delivered = 0 /\ d_waiting = FALSE /\ returned = <<>>
  /\ callExhausted = FALSE /\ callOutcome = "none"
  /\ totalSamples \in 1 .. MaxSamples

NextDX ==
  \/ getNextChunk
  \/ \E n \in BatchSizes : _onSamples(n)

SpecDX == InitDX /\ [][NextDX]_vars

\* C16: the k-th getNextChunk() call resolves with the k-th sample the source
\* delivered: no sample is returned twice and none is skipped.
C16_KthCallKthSample == \A k \in 1 .. Len(returned) : returned[k] = k

\* C17: a getNextChunk() call made when the stream is exhausted fails; it does
\* not stay pending and does not resolve with a sample.
C17_ExhaustedCallFails == callExhausted => callOutcome = "failed"

(***************************************************************************)
(* SpecMW: the worker's 'initialize' handler with both renderers, up to and *)
(* after 'initialize-done' (before the page has posted 'play')              *)
(***************************************************************************)
\* The 'initialize' handler up to its await: both demuxers and both renderers
\* are constructed; their initialization goes on in tasks of their own.
OnInitialize ==
  /\ initState = "none"
  /\ initState' = "waiting"
  /\ UNCHANGED <<posts, rbVars, pVars, cVars, hVars, arVars, unitsClosed, vrVars, wVars,
                 dxVars, mtVars, eVars, zVars>>

\* The 'initialize' handler after await Promise.all([audioRenderer.ready,
\* videoRenderer.ready]): postMessage({command: 'initialize-done', ...,
\* sharedArrayBuffer: audioRenderer.ringbuffer!.buf}).
PostInitializeDone ==
  /\ initState = "waiting"
  /\ ready
  /\ v_ready
  /\ initState' = "posted"
  /\ posts' = posts + 1
  /\ UNCHANGED <<rbVars, pVars, cVars, hVars, arVars, unitsClosed, vrVars, wVars,
                 dxVars, mtVars, eVars, zVars>>

InitMW ==
  /\ _capacity = 0 /\ write_ptr = 0 /\ read_ptr = 0 /\ storage = <<>>
  /\ ThreadsIdle
  /\ ARIdle
  /\ OthersIdle

NextMW ==
  \/ OnInitialize
  \/ initState # "none" /\ \E sr \in SampleRates : \E ch \in ChannelCounts : ARConfigure(sr, ch)
  \/ initState # "none" /\ ARInitialize
  \/ \E frames \in UnitFrames : BufferAudioData(frames)
  \/ ChunkResolved
  \/ initState # "none" /\ VRInitialize
  \/ VChunkResolved
  \/ VTimerFire
  \/ \E t \in FrameTimes : bufferFrame(t)
  \/ PostInitializeDone

SpecMW == InitMW /\ [][NextMW]_vars

\* C18: 'initialize-done' is posted at most once, and only after the audio
\* buffer has reached the decode target and the video queue has held 3 frames;
\* neither ready promise is resolved before its condition holds; the ring
\* buffer exists when the message is posted.
C18_InitializeDoneOnceWhenBuffered ==
  /\ posts <= 1
  /\ ready => (ar_init /\ BufferedAtTarget)
  /\ v_ready => v_wasFull
  /\ posts = 1 => (/\ initState = "posted"
                   /\ ready /\ BufferedAtTarget
                   /\ v_ready /\ v_wasFull
                   /\ _capacity > 0)

\* C18 witness: 'initialize-done' has been posted for a stereo track, with 3
\* frames queued, the audio buffer at its target and decodes still in flight.
C18_Witness ==
  /\ posts = 1
  /\ Len(frameBuffer) >= 3
  /\ BufferedAtTarget
  /\ channelCount = 2
  /\ decodeQueueSize > 0

(***************************************************************************)
(* SpecMT: the media clock.  The page captures the audio clock and posts it *)
(* to the worker, which extrapolates it for every render.  Times are in ms; *)
(* lastMediaTimeSecs holds seconds in thousandths.  What render does with   *)
(* the timestamp is followed under SpecVR, audioRenderer.play()/pause()     *)
(* under SpecAR.                                                            *)
(***************************************************************************)
\* ---- bounds of the clock model ----
\* the wall clock stops advancing at MaxNow
MaxNow == 5
\* messages posted to the worker and not yet handled
MaxMsgs == 2
\* audioController.pause() promises whose then() has not run yet
MaxSuspending == 1

\* performance.timeOrigin of the page and of the worker (created later)
PageTimeOrigin == 0
WorkerTimeOrigin == 1

\* audioContext.outputLatency + audioContext.baseLatency
totalOutputLatency == 1

OtherThanClock ==
  <<rbVars, pVars, cVars, hVars, arVars, unitsClosed, vrVars, iVars, dxVars, eVars,
    zVars>>

\* performance.now() on the page / in the worker
PageNow == now - PageTimeOrigin
WorkerNow == now - WorkerTimeOrigin

\* Math.max
Max(a, b) == IF a > b THEN a ELSE b

\* WebAudioController.getMediaTimeInSeconds()
getMediaTimeInSeconds == Max(ctxTime - totalOutputLatency, 0)

\* {command, mediaTimeSecs: audioController.getMediaTimeInSeconds(),
\*  mediaTimeCapturedAtHighResTimestamp: performance.now() + performance.timeOrigin}
Message(command) ==
  [command |-> command,
   mediaTimeSecs |-> getMediaTimeInSeconds,
   mediaTimeCapturedAtHighResTimestamp |-> PageNow + PageTimeOrigin]

\* getMediaTimeMicroSeconds(), with lastMediaTimeSecs * 1000 held as ms
getMediaTimeMicroSeconds ==
  LET msecsSinceCapture == WorkerNow - lastMediaTimeCapturePoint
  IN  (lastMediaTimeSecs + msecsSinceCapture) * 1000

\* Time passes: the wall clock advances, and the audio clock with it while the
\* AudioContext is running.
Tick ==
  /\ now < MaxNow
  /\ now' = now + 1
  /\ ctxTime' = IF ctxRunning THEN ctxTime + 1 ELSE ctxTime
  /\ UNCHANGED <<ctxRunning, buttonText, intervalOn, suspending, msgs, lastMediaTimeSecs,
                 lastMediaTimeCapturePoint, wVars, OtherThanClock>>

\* playButton.onclick with the button reading 'Play': audioController.play(),
\* postMessage 'play', sendMediaTimeUpdates(true).
ClickPlay ==
  /\ buttonText = "Play"
  /\ Len(msgs) < MaxMsgs
  /\ ctxRunning' = TRUE
  /\ msgs' = Append(msgs, Message("play"))
  /\ intervalOn' = TRUE
  /\ buttonText' = "Pause"
  /\ UNCHANGED <<now, ctxTime, suspending, lastMediaTimeSecs, lastMediaTimeCapturePoint,
                 wVars, OtherThanClock>>

\* playButton.onclick with the button reading 'Pause': audioController.pause(),
\* whose then() posts 'pause' later, and sendMediaTimeUpdates(false).
ClickPause ==
  /\ buttonText = "Pause"
  /\ suspending < MaxSuspending
  /\ ctxRunning' = FALSE
  /\ suspending' = suspending + 1
  /\ intervalOn' = FALSE
  /\ buttonText' = "Play"
  /\ UNCHANGED <<now, ctxTime, msgs, lastMediaTimeSecs, lastMediaTimeCapturePoint,
                 wVars, OtherThanClock>>

\* audioController.pause().then(...): mediaWorker.postMessage({command: 'pause'})
SuspendDone ==
  /\ suspending > 0
  /\ Len(msgs) < MaxMsgs
  /\ suspending' = suspending - 1
  /\ msgs' = Append(msgs, [command |-> "pause"])
  /\ UNCHANGED <<now, ctxRunning, ctxTime, buttonText, intervalOn, lastMediaTimeSecs,
                 lastMediaTimeCapturePoint, wVars, OtherThanClock>>

\* the setInterval callback of sendMediaTimeUpdates: postMessage 'update-media-time'
IntervalFire ==
  /\ intervalOn
  /\ Len(msgs) < MaxMsgs
  /\ msgs' = Append(msgs, Message("update-media-time"))
  /\ UNCHANGED <<now, ctxRunning, ctxTime, buttonText, intervalOn, suspending,
                 lastMediaTimeSecs, lastMediaTimeCapturePoint, wVars, OtherThanClock>>

updateMediaTimeUntranslated(mediaTimeSecs, capturedAtHighResTimestamp) ==
  /\ lastMediaTimeSecs' = mediaTimeSecs
  /\ lastMediaTimeCapturePoint' = capturedAtHighResTimestamp

\* updateMediaTime(mediaTimeSecs, capturedAtHighResTimestamp)
updateMediaTime(mediaTimeSecs, capturedAtHighResTimestamp) ==
  /\ lastMediaTimeSecs' = mediaTimeSecs
  /\ lastMediaTimeCapturePoint' = capturedAtHighResTimestamp - WorkerTimeOrigin

\* the worker's message handler, case 'play'
OnPlay ==
  /\ msgs # <<>>
  /\ Head(msgs).command = "play"
  /\ raf < MaxRaf
  /\ msgs' = Tail(msgs)
  /\ w_playing' = TRUE
  /\ w_paused' = FALSE
  /\ updateMediaTime(Head(msgs).mediaTimeSecs, Head(msgs).mediaTimeCapturedAtHighResTimestamp)
  /\ raf' = raf + 1
  /\ UNCHANGED <<now, ctxRunning, ctxTime, buttonText, intervalOn, suspending,
                 renderTs, prevRenderTs, OtherThanClock>>

\* the worker's message handler, case 'pause'
OnPause ==
  /\ msgs # <<>>
  /\ Head(msgs).command = "pause"
  /\ msgs' = Tail(msgs)
  /\ w_playing' = FALSE
  /\ w_paused' = TRUE
  /\ UNCHANGED <<now, ctxRunning, ctxTime, buttonText, intervalOn, suspending,
                 lastMediaTimeSecs, lastMediaTimeCapturePoint, raf, renderTs, prevRenderTs,
                 OtherThanClock>>

\* the worker's message handler, case 'update-media-time'
OnUpdateMediaTime ==
  /\ msgs # <<>>
  /\ Head(msgs).command = "update-media-time"
  /\ msgs' = Tail(msgs)
  /\ updateMediaTime(Head(msgs).mediaTimeSecs, Head(msgs).mediaTimeCapturedAtHighResTimestamp)
  /\ UNCHANGED <<now, ctxRunning, ctxTime, buttonText, intervalOn, suspending,
                 w_playing, w_paused, raf, renderTs, prevRenderTs, OtherThanClock>>

\* The requestAnimationFrame callback renderVideo:
\* videoRenderer.render(getMediaTimeMicroSeconds()).
RenderAtMediaTime ==
  /\ raf > 0
  /\ IF ~w_playing
     THEN /\ raf' = raf - 1
          /\ UNCHANGED <<renderTs, prevRenderTs>>
     ELSE /\ prevRenderTs' = renderTs
          /\ renderTs' = getMediaTimeMicroSeconds
          /\ UNCHANGED raf
  /\ UNCHANGED <<w_playing, w_paused, mtVars, OtherThanClock>>

\* The page and the worker after 'initialize-done'.
InitMT ==
  /\ _capacity = 0 /\ write_ptr = 0 /\ read_ptr = 0 /\ storage = <<>>
  /\ ThreadsIdle
  /\ ARIdle
  /\ OthersIdle

NextMT ==
  \/ Tick
  \/ ClickPlay
  \/ ClickPause
  \/ SuspendDone
  \/ IntervalFire
  \/ OnPlay
  \/ OnPause
  \/ OnUpdateMediaTime
  \/ RenderAtMediaTime

SpecMT == InitMT /\ [][NextMT]_vars

\* C19: the timestamps passed to render never decrease from one call to the next.
C19_RenderTimestampsNonDecreasing == prevRenderTs # -1 => prevRenderTs <= renderTs

(***************************************************************************)
(* SpecVW: the worker handling 'play' at any time after 'initialize'        *)
(***************************************************************************)
\* The worker's 'play' handler as the worker itself runs it: the handler makes no
\* test of videoRenderer.ready, so a 'play' handled before the queue was ever
\* filled starts the render loop on an empty queue.
HandlePlay ==
  /\ raf < MaxRaf
  /\ w_playing' = TRUE
  /\ w_paused' = FALSE
  /\ raf' = raf + 1
  /\ UNCHANGED <<renderTs, prevRenderTs, vrVars, OtherThanVideo>>

NextVW ==
  \/ VRInitialize
  \/ VChunkResolved
  \/ VTimerFire
  \/ \E t \in FrameTimes : bufferFrame(t)
  \/ HandlePlay
  \/ WorkerPause
  \/ \E timestamp \in QueryTimes : RenderVideo(timestamp)

SpecVW == InitVR /\ [][NextVW]_vars

\* a call of render(timestamp) on an empty queue
RenderCallOnEmpty(timestamp) == RenderVideo(timestamp) /\ w_playing /\ frameBuffer = <<>>

\* C21: on an empty queue chooseFrame returns null and changes nothing (queue,
\* frames, closes), render paints nothing, still calls fillFrameBuffer() (which,
\* unless a fill loop is already running, starts one awaiting a chunk or, with no
\* decoder yet or a saturated one, schedules the next check), and the render
\* loop goes on (playing stays true, the animation frame callback is requested
\* again).
C21_EmptyQueueSkipsPaint ==
  [][\A timestamp \in QueryTimes :
       RenderCallOnEmpty(timestamp) =>
         /\ chosen' = 0
         /\ frameBuffer' = <<>>
         /\ frameTime' = frameTime
         /\ closes' = closes
         /\ v_decodeQueueSize' = v_decodeQueueSize
         /\ painted' = painted
         /\ w_playing'
         /\ raf' = raf
         /\ renderTs' = timestamp
         /\ IF v_fillInProgress
            THEN UNCHANGED <<v_fillInProgress, v_awaiting, v_timers>>
            ELSE IF v_init /\ v_decodeQueueSize < FRAME_BUFFER_TARGET_SIZE
            THEN v_fillInProgress' /\ v_awaiting' = v_awaiting + 1
            ELSE ~v_fillInProgress' /\ v_timers' = v_timers + 1]_vars

\* C21 witness: 'play' was handled before the decoder existed; render ran on the
\* empty queue, painted nothing, its fillFrameBuffer() call scheduled the next
\* check, and the render loop is still scheduled.
C21_Witness ==
  /\ renderTs # -1
  /\ ~v_init
  /\ frameTime = <<>>
  /\ frameBuffer = <<>>
  /\ chosen = 0
  /\ painted = 0
  /\ v_timers > 0
  /\ w_playing
  /\ raf > 0

(***************************************************************************)
(* SpecVE: the VideoRenderer with a decoder that fails                      *)
(***************************************************************************)
\* The VideoDecoder fails on a queued chunk and runs the error callback
\* #initialize gave it, e => console.error(e): the callback assigns nothing of
\* the renderer or of the worker.  The failed decoder is closed: its queue is
\* emptied and it outputs no further frame.
VDecoderError ==
  /\ v_init
  /\ ~v_errored
  /\ v_decodeQueueSize > 0
  /\ v_errored' = TRUE
  /\ v_decodeQueueSize' = 0
  /\ UNCHANGED <<v_init, frameBuffer, frameTime, closes, v_fillInProgress, v_awaiting,
                 v_timers, v_ready, v_wasFull, v_chunks, chosen, painted, v_lateDecodes,
                 wVars, OtherThanVideoLoop>>

NextVE ==
  \/ VRInitialize
  \/ VChunkResolved
  \/ VTimerFire
  \/ \E t \in FrameTimes : bufferFrame(t)
  \/ VDecoderError
  \/ WorkerPlay
  \/ WorkerPause
  \/ \E timestamp \in QueryTimes : RenderVideo(timestamp)

SpecVE == InitVR /\ [][NextVE]_vars

\* C22: once the decoder's error callback has run, the renderer makes no further
\* decode() call.
C22_NoDecodeAfterError == v_lateDecodes = 0

(***************************************************************************)
(* RingBuffer: round trip, writeCallback against push, who stores what      *)
(***************************************************************************)
\* The step on which pop(elements) returns, for a pop of k elements that read the
\* write index after the producer's last call, a push of k > 0 values that
\* accepted them all, had published it.
PopAfterPush(k) ==
  /\ c_pc = "copy" /\ c_pc' = "idle" /\ c_kind = "pop" /\ c_len = k
  /\ p_pc = "idle" /\ p_kind = "push" /\ p_len = k /\ p_ret = k /\ k > 0
  /\ c_wr = write_ptr

\* the values of the last push of k values, and what the pop hands back
LastPushed(k) == SubSeq(pushed, Len(pushed) - k + 1, Len(pushed))
PopResult(k) == SubSeq(c_out, 1, k)

\* C23 (as stated): from every position of the read and write indices, a push of
\* k <= available_write values followed by a pop of k elements returns k both
\* times and the pop yields the pushed values in order.
C23_RoundTripFromAnyIndices ==
  [][\A k \in 1 .. MaxLen :
       PopAfterPush(k) => (c_ret' = k /\ PopResult(k) = LastPushed(k))]_vars

\* C23 (amended): from every position of the read and write indices at which the
\* buffer is empty (the pop starts at the slot where the push started), a push of
\* k <= available_write values followed by a pop of k elements returns k both
\* times and the pop yields the pushed values in order.
C23_RoundTripFromEmpty ==
  [][\A k \in 1 .. MaxLen :
       (PopAfterPush(k) /\ c_rd = (write_ptr + storage_capacity - k) % storage_capacity)
         => (c_ret' = k /\ PopResult(k) = LastPushed(k))]_vars

\* C23 witness: a push of k >= 2 values that wrapped past the end of storage
\* (both parts non-empty) was followed by a pop of k that returned k and emptied
\* the buffer.
C23_Witness ==
  /\ p_pc = "idle" /\ p_kind = "push" /\ p_len >= 2 /\ p_ret = p_len
  /\ c_pc = "idle" /\ c_kind = "pop" /\ c_len = p_len /\ c_ret = c_len
  /\ read_ptr = write_ptr
  /\ 0 < write_ptr /\ write_ptr < p_len
  /\ Len(popped) = Len(pushed)
  /\ SubSeq(c_out, 1, c_ret) = LastPushed(p_len)

\* what push(elements) computes at the indices the call in progress loaded
PushCount == PushToWrite(p_rd, p_wr, p_len)
PushFirst == PushFirstPart(p_wr, PushCount)

\* C24: writeCallback(amount, cb) hands cb two spans whose lengths sum to
\* min(amount, available_write); the first starts at the write index and ends at
\* or before the end of storage, the second starts at slot 0; every element the
\* callback fills, in order, is the store push of the same array makes, and the
\* call publishes the same write index and returns the same count as push; on a
\* full buffer it returns 0 without invoking cb; it never throws.
C24_Step ==
  p_kind = "writeCallback" =>
    /\ ~p_threw'
    /\ (p_pc = "load_wr" /\ p_pc' = "copy") =>
          LET first_part == p_first_part'
              second_part == p_to_write' - p_first_part'
          IN  /\ first_part >= 0 /\ second_part >= 0
              /\ first_part + second_part = Min(p_len, available_write_(p_rd, write_ptr))
              /\ FirstSpanStart(p_wr') = write_ptr
              /\ FirstSpanStart(p_wr') + first_part <= storage_capacity
              /\ SecondSpanStart = 0
              /\ second_part > 0 => FirstSpanStart(p_wr') + first_part = storage_capacity
    /\ (p_pc = "copy" /\ p_i' = p_i + 1) =>
          storage' = [storage EXCEPT ![PushSlot(p_wr, PushFirst, p_i)] = Element(p_i + 1)]
    /\ (p_pc = "copy" /\ p_pc' = "idle") =>
          /\ p_ret' = PushCount
          /\ write_ptr' = (p_wr + PushCount) % storage_capacity
          /\ UNCHANGED <<read_ptr, storage>>
    /\ (p_pc = "load_wr" /\ p_pc' # p_pc /\ IsFull(p_rd, write_ptr)) =>
          /\ p_pc' = "idle"
          /\ p_ret' = 0
          /\ UNCHANGED <<rbVars, pushed>>
C24_WriteCallbackAsPush == [][C24_Step]_vars

\* C24 witness: a writeCallback asked for more than the free space, filled a
\* first span up to the end of storage and a second span from slot 0, and
\* returned the free space.
C24_Witness ==
  /\ p_pc = "idle" /\ p_kind = "writeCallback" /\ ~p_threw
  /\ p_ret >= 2 /\ p_ret < p_len
  /\ 0 < write_ptr /\ write_ptr < p_ret
  /\ storage[write_ptr - 1] = Len(pushed)
  /\ storage[storage_capacity - 1] = Len(pushed) - write_ptr

(***************************************************************************)
(* SpecDF: a Defer object, made by either defer() of the repository         *)
(***************************************************************************)
\* resolve() calls made on the object in one behaviour
MaxResolves == 3

\* the values passed to resolve()
ResolveValues == {1, 2, 3}

\* the two functions named defer: lib/defer.ts and the one lib/debug-log.ts exports
DeferImpls == {"defer.ts", "debug-log.ts"}

\* resolvePromise(value), the resolve function of new Promise: it settles a
\* pending promise and does nothing to a settled one
resolvePromise(promise, value) == IF promise = <<>> THEN <<value>> ELSE promise

\* What reading the property `resolved` of the returned object gives: the getter
\* of defer.ts returns the closure variable; debug-log.ts returned
\* {promise, resolve, resolved}, a field holding the value the variable had then.
ResolvedProperty == IF df_impl = "defer.ts" THEN df_resolved ELSE df_field

OtherThanDefer ==
  <<rbVars, pVars, cVars, hVars, arVars, unitsClosed, vrVars, wVars, iVars, dxVars,
    mtVars, eVars, ibVars>>

\* defer(): let resolved = false; const promise = new Promise(...); return {...}
NewDefer(impl) ==
  /\ df_impl = "none"
  /\ df_impl' = impl
  /\ df_resolved' = FALSE
  /\ df_field' = FALSE
  /\ df_promise' = <<>>
  /\ UNCHANGED <<df_args, df_read, OtherThanDefer>>

\* resolve(value)
DeferResolve(value) ==
  /\ df_impl # "none"
  /\ Len(df_args) < MaxResolves
  /\ df_args' = Append(df_args, value)
  /\ IF df_impl = "defer.ts"
     THEN \* if (!resolved) { resolved = true; resolvePromise(value) }
          IF ~df_resolved
          THEN /\ df_resolved' = TRUE
               /\ df_promise' = resolvePromise(df_promise, value)
          ELSE UNCHANGED <<df_resolved, df_promise>>
     ELSE \* resolved = true; return resolvePromise(value)
          /\ df_resolved' = TRUE
          /\ df_promise' = resolvePromise(df_promise, value)
  /\ UNCHANGED <<df_impl, df_field, df_read, OtherThanDefer>>

\* A caller reads deferred.resolved; the value is recorded with the number of
\* resolve() calls made before the read.
ReadResolved ==
  /\ df_impl # "none"
  /\ df_read' = <<ResolvedProperty, Len(df_args)>>
  /\ UNCHANGED <<df_impl, df_resolved, df_field, df_promise, df_args, OtherThanDefer>>

InitDF ==
  /\ _capacity = 0 /\ write_ptr = 0 /\ read_ptr = 0 /\ storage = <<>>
  /\ ThreadsIdle
  /\ ARIdle
  /\ OthersIdle

NextDF ==
  \/ \E impl \in DeferImpls : NewDefer(impl)
  \/ \E value \in ResolveValues : DeferResolve(value)
  \/ ReadResolved

SpecDF == InitDF /\ [][NextDF]_vars

\* C25: for every Defer returned by defer(), a read of `resolved` gives false
\* before the first resolve() call and true after it, and the promise is pending
\* before the first call and fulfilled with the first call's value ever after.
C25_ResolvedOnceByFirstCall ==
  df_impl # "none" =>
    /\ df_read # <<>> => df_read[1] = (df_read[2] > 0)
    /\ ResolvedProperty = (df_args # <<>>)
    /\ df_promise = IF df_args = <<>> THEN <<>> ELSE <<df_args[1]>>

(***************************************************************************)
(* Media clock: extrapolation                                               *)
(***************************************************************************)
\* the worker handles the message at the head of the queue
Handled(command) ==
  /\ msgs # <<>>
  /\ Head(msgs).command = command
  /\ msgs' = Tail(msgs)

\* the instant, on the clock the page stamped it with, at which the stored media
\* time was captured
StoredCaptureInstant == lastMediaTimeCapturePoint + WorkerTimeOrigin

\* C26: the stored pair is the (media time, capture instant) of the last 'play'
\* or 'update-media-time' message handled and changes on no other step; the
\* estimate passed to render at instant t is the stored media time plus
\* (t - capture instant), in microseconds; handling 'update-media-time' changes
\* nothing but the stored pair.
C26_Step ==
  /\ (Handled("play") \/ Handled("update-media-time")) =>
        /\ lastMediaTimeSecs' = Head(msgs).mediaTimeSecs
        /\ StoredCaptureInstant' = Head(msgs).mediaTimeCapturedAtHighResTimestamp
  /\ <<lastMediaTimeSecs, lastMediaTimeCapturePoint>>'
        # <<lastMediaTimeSecs, lastMediaTimeCapturePoint>>
       => (Handled("play") \/ Handled("update-media-time"))
  /\ Handled("update-media-time") =>
        UNCHANGED <<w_playing, w_paused, raf, renderTs, prevRenderTs, now, ctxRunning,
                    ctxTime, buttonText, intervalOn, suspending, OtherThanClock>>
  /\ (raf > 0 /\ w_playing /\ <<renderTs, prevRenderTs>>' # <<renderTs, prevRenderTs>>) =>
        renderTs' = (lastMediaTimeSecs + (now - StoredCaptureInstant)) * 1000
C26_EstimateExtrapolates == [][C26_Step]_vars

\* C26 witness: render was called one millisecond after the capture instant of a
\* stored media time above zero, with the estimate one millisecond above it.
C26_Witness ==
  /\ lastMediaTimeSecs > 0
  /\ now - StoredCaptureInstant >= 1
  /\ renderTs = (lastMediaTimeSecs + (now - StoredCaptureInstant)) * 1000

(***************************************************************************)
(* SpecRP: the ring buffer under any producer and consumer, and under the   *)
(* player's two sides                                                       *)
(***************************************************************************)
\* The buffer was constructed directly (InitRB) and not by an AudioRenderer.
StandaloneBuffer == _capacity # 0 /\ ~ar_init

InitRP == InitRB \/ InitAR

\* Either a producer thread and a consumer thread calling any operation of the
\* buffer, or the player: the worker's AudioRenderer and the AudioSink worklet.
NextRP ==
  \/ StandaloneBuffer /\ NextRB
  \/ ~StandaloneBuffer /\ NextAR

SpecRP == InitRP /\ [][NextRP]_vars

\* C27: no step of push, writeCallback or a producer query stores to the read
\* index; no step of pop or a consumer query stores to the write index or to a
\* storage slot; in the player the write index is stored only by the worker's
\* bufferAudioData (writeCallback), which leaves the read index alone, and the
\* read index only by AudioSink.process (pop), which leaves the write index and
\* the slots alone.
C27_Step ==
  /\ pVars' # pVars => read_ptr' = read_ptr
  /\ cVars' # cVars => (write_ptr' = write_ptr /\ storage' = storage)
  /\ (ar_init /\ write_ptr' # write_ptr) =>
        /\ \E frames \in UnitFrames : BufferAudioData(frames)
        /\ read_ptr' = read_ptr
  /\ (ar_init /\ read_ptr' # read_ptr) =>
        /\ SinkProcess
        /\ write_ptr' = write_ptr
        /\ storage' = storage
  /\ (ar_init /\ arVars' # arVars) => read_ptr' = read_ptr
C27_EachSideStoresItsIndex == [][C27_Step]_vars

\* C27 witness: in the player, bufferAudioData has written a unit and the sink
\* has popped part of the data.
C27_Witness ==
  /\ ar_init
  /\ wrote > 0
  /\ read_ptr > 0
  /\ write_ptr # read_ptr

(***************************************************************************)
(* AudioRenderer: the state at each decode(), the end of a fill cycle       *)
(***************************************************************************)
\* C28: at every decoder.decode(chunk) call of the fill cycle the buffered
\* duration is below the decode target and decodeQueueSize is below
\* DECODER_QUEUE_SIZE_MAX, and decodeQueueSize never exceeds it.
C28_Step ==
  ChunkResolved => (~UsedAtTarget /\ decodeQueueSize < DECODER_QUEUE_SIZE_MAX)
C28_DecodeOnlyBelowTarget ==
  [][C28_Step /\ decodeQueueSize' <= DECODER_QUEUE_SIZE_MAX]_vars

\* a step on which the fill cycle issues getNextChunk() and awaits it: on entering
\* the loop, or after a decode() when the loop goes round again
ReadIssued == readsPending' > readsPending \/ (ChunkResolved /\ fillAwaiting' = fillAwaiting)

\* C28 (amended): whenever the fill cycle issues the getNextChunk() that precedes
\* a decode(chunk) call, the buffered duration is below the decode target and
\* decodeQueueSize is below DECODER_QUEUE_SIZE_MAX; at the decode() call itself
\* decodeQueueSize is still below it, so it never exceeds it.  (Outputs that
\* arrive during the await may have raised the buffered duration by then.)
C28_AmendedStep ==
  /\ ReadIssued =>
        /\ UsedBufferElements' * 10
             < DATA_BUFFER_DECODE_TARGET_DURATION_x10 * (channelCount' * sampleRate')
        /\ decodeQueueSize' < DECODER_QUEUE_SIZE_MAX
  /\ ChunkResolved => decodeQueueSize < DECODER_QUEUE_SIZE_MAX
  /\ decodeQueueSize' <= DECODER_QUEUE_SIZE_MAX
C28_BelowTargetWhenChunkRequested == [][C28_AmendedStep]_vars

\* C28 witness: a decoder output that arrived while the cycle was awaiting
\* getNextChunk() has raised the buffered duration to the target, and the chunk
\* awaited will still be decoded.
C28_Witness ==
  /\ fillAwaiting > 0
  /\ UsedAtTarget
  /\ decodes > 0
  /\ decodeQueueSize < DECODER_QUEUE_SIZE_MAX

\* A task that calls #fillDataBuffer() gets past its guard and past the first
\* line of #fillDataBufferInternal(): a fill cycle runs.
CycleRuns ==
  /\ \/ ARInitialize
     \/ Play
     \/ TimerFire
     \/ \E frames \in UnitFrames : BufferAudioData(frames)
  /\ ~fillInProgress
  /\ ar_init'

\* the setTimeout calls the task made (a timer callback first consumes its own)
Scheduled == IF TimerFire THEN timers' - (timers - 1) ELSE timers' - timers

\* what the cycle finds on entry
SaturatedOnEntry == decodeQueueSize' >= DECODER_QUEUE_SIZE_MAX
AtTargetOnEntry ==
  UsedBufferElements' * 10
    >= DATA_BUFFER_DECODE_TARGET_DURATION_x10 * (channelCount' * sampleRate')

\* C29 (as stated): a fill cycle that stops without submitting work, because the
\* buffered duration is at or above the target or because the decoder is
\* saturated, on entry or on leaving the decode loop, schedules one follow-up
\* check if playing is true and none if it is false.
C29_StopStep ==
  /\ (CycleRuns /\ (SaturatedOnEntry \/ AtTargetOnEntry)) =>
        Scheduled = IF playing' THEN 1 ELSE 0
  /\ (ChunkResolved /\ fillAwaiting' < fillAwaiting) =>
        timers' - timers = IF playing THEN 1 ELSE 0
C29_StopSchedulesIffPlaying == [][C29_StopStep]_vars

\* C29 (amended): a fill cycle that finds on entry the decoder not saturated and
\* the buffered duration at or above the target schedules one follow-up check if
\* playing is true and none if it is false; a cycle that finds the decoder
\* saturated, and one that leaves the decode loop, schedules none.
C29_AmendedStep ==
  /\ (CycleRuns /\ ~SaturatedOnEntry /\ AtTargetOnEntry) =>
        Scheduled = IF playing' THEN 1 ELSE 0
  /\ (CycleRuns /\ SaturatedOnEntry) => Scheduled = 0
  /\ ChunkResolved => timers' = timers
C29_AtTargetSchedulesIffPlaying == [][C29_AmendedStep]_vars

\* C29 witness: while playing, a cycle found the decoder saturated and left no
\* timer pending.
C29_Witness ==
  /\ playing
  /\ entrySaturated
  /\ decodeQueueSize = DECODER_QUEUE_SIZE_MAX
  /\ ~fillInProgress
  /\ timers = 0

(***************************************************************************)
(* VideoRenderer: the guarded fill loop                                     *)
(***************************************************************************)
\* a step on which the fill loop calls getNextChunk() and awaits it: on entering
\* the loop, or after a decode() when the loop goes round again
VReadIssued ==
  v_awaiting' > v_awaiting \/ (VChunkResolved /\ ~v_errored /\ v_awaiting' = v_awaiting)

\* C30: at most one getNextChunk() is outstanding, and only while fillInProgress
\* is set; each is issued with frameBuffer.length < 3, a decoder and
\* decodeQueueSize < 3; every decode() is made by the loop that awaited the chunk,
\* with fillInProgress set and decodeQueueSize still below 3.
C30_Step ==
  /\ v_awaiting' <= 1
  /\ v_awaiting' > 0 => v_fillInProgress'
  /\ VReadIssued =>
        /\ Len(frameBuffer') < FRAME_BUFFER_TARGET_SIZE
        /\ v_init'
        /\ v_decodeQueueSize' < FRAME_BUFFER_TARGET_SIZE
  /\ v_decodeQueueSize' > v_decodeQueueSize =>
        /\ VChunkResolved
        /\ v_awaiting = 1
        /\ v_fillInProgress
        /\ v_decodeQueueSize < FRAME_BUFFER_TARGET_SIZE
C30_SingleGuardedFillLoop == [][C30_Step]_vars

\* C30 witness: the loop is awaiting a chunk while a zero-delay timer is pending,
\* a render tick has run and the render loop is scheduled, with a chunk in the
\* decoder.
C30_Witness ==
  /\ v_awaiting = 1
  /\ v_timers > 0
  /\ w_playing /\ raf > 0 /\ renderTs # -1
  /\ v_decodeQueueSize > 0

(***************************************************************************)
(* VideoRenderer: order and size of the lookahead queue                     *)
(***************************************************************************)
\* C33: with a decoder that delivers frames in non-decreasing timestamp order,
\* the timestamps of the lookahead queue do not decrease from the front, in
\* every reachable state, under any interleaving of bufferFrame and chooseFrame.
C33_QueueNonDecreasing == NonDecreasing(frameBuffer)

\* C33 witness: after a render that dropped a frame, frames were appended behind
\* the chosen one; the queue holds three frames, two of them with the same
\* timestamp.
C33_Witness ==
  /\ renderTs # -1
  /\ \E f \in DOMAIN closes : closes[f] = 1
  /\ Len(frameBuffer) >= 3
  /\ frameBuffer[1] = chosen
  /\ Timestamp(frameBuffer, 1) < Timestamp(frameBuffer, 2)
  /\ Timestamp(frameBuffer, 2) = Timestamp(frameBuffer, 3)

\* C39: the frames held in the lookahead queue plus the decodes in flight
\* (decodeQueueSize) are at most 5 = 2 * FRAME_BUFFER_TARGET_SIZE - 1 in every
\* reachable state, whether or not render is ever called.
C39_QueuePlusInFlightBounded ==
  Len(frameBuffer) + v_decodeQueueSize <= 2 * FRAME_BUFFER_TARGET_SIZE - 1

\* C39 witness: render was never called, the target of 3 was reached and frames
\* kept arriving: the queue holds 5 frames and the fill loop has ended.
C39_Witness ==
  /\ renderTs = -1
  /\ v_ready
  /\ Len(frameBuffer) = 2 * FRAME_BUFFER_TARGET_SIZE - 1
  /\ v_decodeQueueSize = 0
  /\ ~v_fillInProgress

(***************************************************************************)
(* AudioRenderer: pending follow-up checks, progress while playing          *)
(***************************************************************************)
\* C38: at most one follow-up fill check (setTimeout) scheduled by the
\* AudioRenderer is pending at any time, under any interleaving of decoder
\* outputs, timer firings and play() / pause() calls.
C38_AtMostOneTimerPending == timers <= 1

(***************************************************************************)
(* Both renderers: the fill guard                                           *)
(***************************************************************************)
\* C36: for both renderers fillInProgress is true only while a fill cycle is
\* executing (suspended at its await of getNextChunk() between two tasks): when
\* a cycle ends, normally or because getNextChunk() or decode() failed, the
\* guard is cleared.
C36_GuardOnlyWhileCycleRuns ==
  /\ fillInProgress => fillAwaiting > 0
  /\ v_fillInProgress => v_awaiting > 0

(***************************************************************************)
(* Page and worker: play / pause                                            *)
(***************************************************************************)
\* every posted message has been handled and every audioController.pause()
\* promise has run its then()
Delivered == msgs = <<>> /\ suspending = 0

\* C37: after any sequence of clicks, once every posted message and every
\* pending suspend() promise has been delivered, the worker's playing flag (and
\* AudioRenderer.playing, which the same handlers set) is true exactly when the
\* button reads 'Pause', as is the running state of the AudioContext, and at
\* most one renderVideo animation-frame loop is active.
C37_PlayStateAgreesWithButton ==
  Delivered =>
    /\ w_playing = (buttonText = "Pause")
    /\ ctxRunning = (buttonText = "Pause")
    /\ w_playing => raf <= 1

(***************************************************************************)
(* SpecAU: the AudioRenderer and the AudioSink with sample values.  The     *)
(* tasks are those of SpecAR; the decoder's output callback and the sink's  *)
(* process() are followed sample by sample, and a decoded unit may have any *)
(* channel count and frame count.  The track's sample rate is taken small,  *)
(* so that the ring buffer holds a few frames and every split position of a *)
(* write occurs.                                                            *)
(***************************************************************************)
\* ---- bounds of the sample-level model ----
\* decode() calls in one behaviour
MaxUnits == 5
\* data.numberOfFrames of the decoded units explored
ShortUnitFrames == {1, 2}

\* config.sampleRate of the tracks explored
SlowSampleRates == {5}

\* what a Float32Array stores when assigned undefined
NaN == -2

\* The sample of channel c at frame f (both from 0) of the n-th decoded unit.
Sample(n, c, f) == n * 100 + c * 10 + f
ChannelOf(v) == (v \div 10) % 10

\* the AudioData handed to bufferAudioData
AudioData(ch, frames) ==
  [numberOfChannels |-> ch, numberOfFrames |-> frames, serial |-> u_count + 1]

\* if (this.interleavingBuffers.length != data.numberOfChannels)
NeedsNewBuffers(data) == Len(interleavingBuffers) # data.numberOfChannels

\* this.interleavingBuffers = new Array(this.channelCount), each element a
\* new Float32Array(data.numberOfFrames)
NewBuffers(data) == [i \in 1 .. channelCount |-> [j \in 1 .. data.numberOfFrames |-> 0]]

\* the scratch buffers the copy loop of bufferAudioData finds
Scratch(data) == IF NeedsNewBuffers(data) THEN NewBuffers(data) ELSE interleavingBuffers

\* The iterations i (from 1) of the loop `for (i < this.channelCount)` on which
\* data.copyTo(this.interleavingBuffers[i], {planeIndex: i}) throws: no such
\* plane, no such buffer, or a buffer shorter than the unit.
CopyFails(bufs, data) ==
  {i \in 1 .. channelCount :
     \/ i > data.numberOfChannels
     \/ i > Len(bufs)
     \/ data.numberOfFrames > Len(bufs[i])}

\* The scratch buffers after the copy loop, which stops at the first copyTo that
\* throws; copyTo fills the first numberOfFrames elements of its destination.
Copied(bufs, data) ==
  LET fails == CopyFails(bufs, data)
      stop == IF fails = {} THEN channelCount + 1
              ELSE CHOOSE i \in fails : \A j \in fails : i <= j
  IN  [i \in 1 .. Len(bufs) |->
         IF i < stop
         THEN [j \in 1 .. Len(bufs[i]) |->
                 IF j <= data.numberOfFrames THEN Sample(data.serial, i - 1, j - 1)
                 ELSE bufs[i][j]]
         ELSE bufs[i]]

\* interleave: if (inputs.length * inputs[0].length < output.length) throw
InterleaveThrows(inputs, outputLength) == Len(inputs) * Len(inputs[1]) < outputLength

\* The loop of interleave from iteration i on: the values stored to output, in
\* order.  A read past the end of a Float32Array gives undefined, stored as NaN.
RECURSIVE InterleaveLoop(_, _, _, _, _)
InterleaveLoop(inputs, channel, inputIdx, i, inputSamplesToCopy) ==
  IF i >= inputSamplesToCopy
  THEN <<>>
  ELSE LET v == IF inputIdx < Len(inputs[channel + 1])
                THEN inputs[channel + 1][inputIdx + 1]
                ELSE NaN
           wraps == channel + 1 = Len(inputs)
       IN  <<v>> \o InterleaveLoop(inputs,
                                   IF wraps THEN 0 ELSE channel + 1,
                                   IF wraps THEN inputIdx + 1 ELSE inputIdx,
                                   i + 1, inputSamplesToCopy)

\* interleave(inputs, inputOffset, inputSamplesToCopy, output, 0): the values
\* stored to output[0 ..]
interleave(inputs, inputOffset, inputSamplesToCopy) ==
  InterleaveLoop(inputs, inputOffset % Len(inputs), inputOffset \div Len(inputs),
                 0, inputSamplesToCopy)

\* storage after the callback has stored vals[1 .. n] through the two spans of
\* a writeCallback that loaded the write index wr
Stored(wr, first_part, vals, n) ==
  [s \in DOMAIN storage |->
     IF \E i \in 0 .. (n - 1) : CallbackSlot(wr, first_part, i) = s
     THEN vals[1 + CHOOSE i \in 0 .. (n - 1) : CallbackSlot(wr, first_part, i) = s]
     ELSE storage[s]]

WriteAmountFramesOnly(data) == data.numberOfFrames

\* data.numberOfFrames * data.numberOfChannels
WriteAmount(data) == data.numberOfFrames * data.numberOfChannels

OtherThanUnits ==
  <<pVars, cVars, hVars, unitsClosed, vrVars, wVars, iVars, dxVars, mtVars, eVars, dfVars>>

\* ARInitialize for a buffer whose slots are followed: those of a fresh
\* SharedArrayBuffer are zero.
ARInitializeZeroed ==
  /\ ~ar_init /\ sampleRate # 0
  /\ ar_init' = TRUE
  /\ _capacity' = CtorCapacity(getStorageForCapacity(sampleCountIn500ms(sampleRate, channelCount)))
  /\ write_ptr' = 0
  /\ read_ptr' = 0
  /\ storage' = [s \in 0 .. (_capacity' - 1) |-> 0]
  /\ UNCHANGED <<sampleRate, channelCount, playing, decodeQueueSize, wrote, unitSize, decodes>>
  /\ FillDataBuffer(timers)
  /\ UNCHANGED <<pVars, cVars, hVars, xVars>>

\* The decoder's output callback bufferAudioData(data) for a unit of `ch` channels
\* and `frames` frames: the scratch buffers are allocated anew or kept, the planes
\* are copied into them, writeCallback hands the callback two spans that
\* interleave fills, and #fillDataBuffer() is called.  A copyTo or an interleave
\* that throws ends the callback there: an interleave that throws leaves the
\* write index where it was, and #fillDataBuffer() is not reached.
BufferAudioDataUnit(ch, frames) ==
  LET data == AudioData(ch, frames)
      bufs == Copied(Scratch(data), data)
      copyThrew == CopyFails(Scratch(data), data) # {}
      amount == WriteAmount(data)
      rd == read_ptr
      wr == write_ptr
      full == IsFull(rd, wr)
      to_write == IF full THEN 0 ELSE PushToWrite(rd, wr, amount)
      first_part == PushFirstPart(wr, to_write)
      second_part == to_write - first_part
      firstThrew == ~full /\ InterleaveThrows(bufs, first_part)
      secondThrew == ~full /\ InterleaveThrows(bufs, second_part)
      vals == interleave(bufs, 0, first_part) \o interleave(bufs, first_part, second_part)
  IN  /\ ar_init
      /\ decodeQueueSize > 0
      /\ decodeQueueSize' = decodeQueueSize - 1
      /\ u_count' = u_count + 1
      /\ u_prev' = u_last
      /\ u_last' = <<ch, frames>>
      /\ u_realloc' = NeedsNewBuffers(data)
      /\ u_start' = wr
      /\ interleavingBuffers' = bufs
      /\ UNCHANGED <<ar_init, sampleRate, channelCount, playing, decodes>>
      /\ UNCHANGED <<_capacity, read_ptr, deinterleaveBuffer, consumed, OtherThanUnits>>
      /\ IF copyThrew \/ firstThrew \/ secondThrew
         THEN /\ u_outcome' = IF copyThrew THEN "copyTo threw" ELSE "interleave threw"
              /\ storage' = IF ~copyThrew /\ ~firstThrew
                            THEN Stored(wr, first_part, vals, first_part)
                            ELSE storage
              /\ UNCHANGED <<write_ptr, wrote, unitSize, published, underDelivered>>
              /\ UNCHANGED <<fillInProgress, fillAwaiting, readsPending, ready, timers,
                             entryAtTarget, entrySaturated, cycleWork>>
         ELSE /\ u_outcome' = "written"
              /\ storage' = Stored(wr, first_part, vals, to_write)
              /\ write_ptr' = (wr + to_write) % storage_capacity
              /\ wrote' = to_write
              /\ unitSize' = amount
              /\ published' = published + to_write
              /\ underDelivered' = (underDelivered \/ to_write < amount)
              /\ FillDataBuffer(timers)

\* AudioSink.process: this.consumerSide.pop(this.deinterleaveBuffer), a buffer of
\* mediaChannelCount * RENDER_QUANTUM_SIZE elements, of which the elements pop
\* filled are followed.
Process ==
  /\ ready
  /\ LET rd == read_ptr
         wr == write_ptr
         to_read == IF wr = rd THEN 0
                    ELSE PopToRead(rd, wr, channelCount * RENDER_QUANTUM_SIZE)
         first_part == PopFirstPart(rd, to_read)
     IN  /\ read_ptr' = (rd + to_read) % storage_capacity
         /\ deinterleaveBuffer' = [j \in 1 .. to_read |-> storage[PopSlot(rd, first_part, j - 1)]]
         /\ consumed' = consumed + to_read
  /\ UNCHANGED <<_capacity, write_ptr, storage, arVars, interleavingBuffers, u_count, u_last,
                 u_prev, u_realloc, u_outcome, u_start, published, underDelivered,
                 OtherThanUnits>>

\* deinterleave(input, output): the output channel that receives input[m], m from 0
OutputChannel(m) == m % channelCount

NextAU ==
  \/ \E sr \in SlowSampleRates : \E ch \in ChannelCounts : ARConfigure(sr, ch)
  \/ ARInitializeZeroed
  \/ Play
  \/ Pause
  \/ TimerFire
  \/ decodes < MaxUnits /\ ChunkResolved
  \/ \E ch \in ChannelCounts : \E frames \in ShortUnitFrames : BufferAudioDataUnit(ch, frames)
  \/ Process

SpecAU == InitAR /\ [][NextAU]_vars



(***************************************************************************)
(* AudioRenderer: the scratch buffers and the samples written               *)
(***************************************************************************)
\* C32: once bufferAudioData has copied a decoded unit into the scratch buffers,
\* there are as many scratch buffers as the unit has channels, each as long as the
\* unit has frames, and the buffers were allocated anew for this unit exactly when
\* its channel count or its frame count differs from the previous unit's (the
\* first unit differs from none before it).
C32_ScratchSizedToUnit ==
  u_last # <<>> =>
    /\ Len(interleavingBuffers) = u_last[1]
    /\ \A i \in 1 .. Len(interleavingBuffers) : Len(interleavingBuffers[i]) = u_last[2]
    /\ u_realloc = (u_prev # u_last)


\* C31: when bufferAudioData has written a decoded unit of C channels, the k-th
\* sample it wrote to the ring buffer, counted from the write index across both
\* spans, is the sample of channel k mod C at frame floor(k / C) of that unit.
C31_WrittenSamplesInterleaved ==
  u_outcome = "written" =>
    \A k \in 0 .. (wrote - 1) :
      storage[(u_start + k) % storage_capacity] = Sample(u_count, k % u_last[1], k \div u_last[1])


C34_PlayingNeverStalls ==
  (ar_init /\ playing) => (fillInProgress \/ decodeQueueSize > 0 \/ timers > 0)


(***************************************************************************)
(* SpecWI: the worker's 'initialize' handler with both renderers and the    *)
(* contents of the decoded audio units.  Every task that is ready to run is *)
(* run in the end: the event loop runs the continuation of a resolved       *)
(* promise and a timer that is due, the demuxers resolve every              *)
(* getNextChunk() and the decoders output every chunk submitted.            *)
(***************************************************************************)
AudioConfigured ==
  initState # "none" /\ \E sr \in SlowSampleRates : \E ch \in ChannelCounts : ARConfigure(sr, ch)

AudioInitialized == initState # "none" /\ ARInitializeZeroed

AudioChunk == decodes < MaxUnits /\ ChunkResolved

AudioOutput ==
  \E ch \in ChannelCounts : \E frames \in ShortUnitFrames : BufferAudioDataUnit(ch, frames)

VideoInitialized == initState # "none" /\ VRInitialize

VideoOutput == \E t \in FrameTimes : bufferFrame(t)

NextWI ==
  \/ OnInitialize
  \/ AudioConfigured
  \/ AudioInitialized
  \/ AudioChunk
  \/ AudioOutput
  \/ VideoInitialized
  \/ VChunkResolved
  \/ VTimerFire
  \/ VideoOutput
  \/ PostInitializeDone

SpecWI ==
  /\ InitMW
  /\ [][NextWI]_vars
  /\ WF_vars(AudioConfigured) /\ WF_vars(AudioInitialized)
  /\ WF_vars(AudioChunk) /\ WF_vars(AudioOutput)
  /\ WF_vars(VideoInitialized) /\ WF_vars(VChunkResolved)
  /\ WF_vars(VTimerFire) /\ WF_vars(VideoOutput)
  /\ WF_vars(PostInitializeDone)

\* C35: after an 'initialize' message, with no play() call, both ready signals
\* are resolved and the worker posts 'initialize-done' in the end, as long as the
\* audio demuxer goes on delivering (the model's demuxer stops after MaxUnits
\* chunks).
C35_InitializeDoneEventuallyPosted ==
  (initState = "waiting") ~> (posts = 1 \/ decodes = MaxUnits)

====
